---- MODULE Spec2Model ----
(***************************************************************************)
(* A model of the data-transformation scripts of the repository.  The      *)
(* repository holds independent programs; each gets its own group of       *)
(* variables, its own initial condition and its own specification, and the *)
(* variables of the programs that are not running stay at their idle       *)
(* values.                                                                 *)
(*                                                                         *)
(* Strings are sequences of one-character strings: "0101.01" is            *)
(* <<"0","1","0","1",".","0","1">>.                                         *)
(***************************************************************************)
EXTENDS Integers, Sequences, FiniteSets, TLC

VARIABLES
    \* tariff_analysis/code/utils.py: add_standardised_comm_code
    comm_code_in_df,    \* whether comm_code_col is a column of df
    comm_code,          \* the cell of df[comm_code_col] of one row
    standardised,       \* the cell of df[new_col] of that row, or NoValue
    code_pc,
    \* tariff_analysis/code/utils.py: auto_archive_files
    dir_exists,         \* whether dir_name is a directory
    dir_files,          \* the files directly in dir_name
    dir_subdirs,        \* the sub-directories of dir_name
    unreadable,         \* the files of dir_name that zip_obj.write raises on
    archive_exists,     \* whether archive_dir exists
    archive_names,      \* the names of the entries of archive_dir
    zip_members,        \* zip archive of archive_dir -> the files it contains
    to_zip,
    file_list,          \* the local file_list of auto_archive_files
    orig_files,         \* the files of dir_name when auto_archive_files was called
    arch_pc,
    \* topic_modelling/code/topic_modelling.py: run_lda, GensimTopicModeller
    run_model,          \* run_lda's run_model
    single_model,       \* GensimTopicModeller.single_model
    num_topics,         \* GensimTopicModeller.num_topics, or NoTopics
    topics,             \* GensimTopicModeller.topics: start, limit, step
    cv,                 \* topic count -> the coherence the library gives its model
    lda_i,              \* the loop variable i of get_models_and_coherence
    models_and_coherence,  \* the list get_models_and_coherence builds
    lda_calls,          \* the topic counts run_lda was called with, in order
    models_cvs_exists,  \* whether models_coherence.pkl exists
    models_cvs_file,    \* the list pickled in models_coherence.pkl
    m_c,                \* what run_lda returns
    lda_pc,
    \* topic_modelling/code/text_processing.py: TextProcessor
    tp_entry,           \* the function that was called
    tp_df,              \* TextProcessor.df: the documents
    stopwords_arg,      \* the stopwords argument of the constructor
    self_stopwords,     \* TextProcessor.stopwords
    check_sp,           \* TextProcessor.check_sp
    text,               \* run_processor: the lower-cased column
    jargon_replaced,    \* run_processor: text["jargon_replaced"]
    token_list,         \* process_text: token_list, per document
    no_stop_list,       \* process_text: no_stop_list, per document
    processed_text,     \* run_processor: text["processed_text"]
    tp_pc,
    \* enquiries-classification/nlp_processing_base.py: NlpProcessingBase
    text_ser,           \* one cell of the text_ser handed to the method
    stop_words,         \* NlpProcessingBase.stop_words
    nlp_result,         \* the cell of the Series the method returns
    nlp_pc,
    \* tariff_analysis/code/word_doc_processor.py: AuUsesDocIngest
    desc_df,            \* df[desc_col]: the rows <<index, description text>>
    goods_description,  \* the Series extract_commodity_description returns
    desc_pc,
    \* file readers: tariff_analysis base.py / utils.py, text_summariser.py,
    \* topic_modelling text_processing.py
    read_fn,            \* the reader called
    read_run_processor, \* get_processed_text's run_processor
    read_path,          \* whether a path was passed (get_text_to_summarise)
    read_fault,         \* what opening or parsing the file raises, "ok" if nothing
    read_num_rows,      \* num_rows, NoRows for None
    file_rows,          \* the number of records in the file
    read_df,            \* the rows of df after get_data, NoDf for None
    read_result,        \* what the reader returned
    read_exc,           \* the exception that left the reader
    read_pc,
    \* text-summariser/text_summariser.py: TextSummariser
    summary_bounds,     \* the bounds argument: [type, items]
    num_words,          \* self.num_words
    min_percent,        \* self.min_percent, in hundredths
    max_percent,        \* self.max_percent, in hundredths
    self_bounds,        \* self.bounds
    sum_exc,            \* the exception raised: <<type, message>>
    sum_pc,
    \* enquiries-classification/topic_classifier_train.py: ModelTrain
    model_params,       \* per model of model_params: FitRaises or its test score
    save_model,         \* self.save_model
    train_i,            \* how many items of model_settings the loop has done
    train_best,         \* best of train_all_models: [model, score]
    best_model,         \* what train_all_models returned: [model, score] or NoBest
    saved_model,        \* the model pickled at self.model_path, NoModel if none
    train_exc,          \* the exception that left run_trainer
    train_pc,
    \* enquiries-classification/topic_classifier_predict.py: predict, after
    \* PrepareText and ModelTrain have persisted their objects
    model_dir,          \* the files of the model directory: name -> content
    pred_df,            \* df: the rows <<id, text>>
    id_col,             \* the name of the id column
    f_name,             \* get_model_name(features_pattern)
    tf_idf,             \* the object loaded as TF-IDF vectoriser
    clf_name,           \* get_model_name(model_pattern)
    clf,                \* the object loaded as classifier
    pred_results,       \* the rows <<id, labels>> predict returns
    pred_exc,           \* the exception that left predict
    pred_pc,
    \* google-analytics/poll_website.py: poll_site
    urls,               \* the pages of urls, each named by its suffix
    num_requests,       \* num_requests
    wait_time,          \* wait_time
    poll_i,             \* the iterations of poll_site completed
    url,                \* the page chosen in this iteration
    num_clicks,         \* num_clicks of page_interactions
    clicks_done,        \* the iterations of the click loop done
    clicked,            \* the elem.click() calls of this iteration
    pauses,             \* the time.sleep durations of this iteration, in order
    open_browsers,      \* browsers opened and not quit
    url_log,            \* history: the page of each completed iteration
    click_log,          \* history: the clicks of each completed iteration
    pause_log,          \* history: the pauses of each completed iteration
    poll_pc,
    \* topic_modelling/code/topic_modelling.py: main
    lda_opt,            \* the --lda command-line option
    \* dash/app.py and streamlit/dashboard/app.py
    app_kind,           \* which dashboard is running: "dash" or "streamlit"
    checkins_df,        \* check-in rows [user, time], time being the index
    edges_df,           \* <<source, target>> rows of the edges file
    dates,              \* the slider value: NoDates or <<d0, d1>>
    daily_fig,          \* data behind the check-ins-over-time bar chart
    map_fig,            \* rows behind the check-in locations map
    network_fig,        \* edges behind the social network graph
    dash_pc,
    \* tariff_analysis/code/word_doc_processor.py: clean_and_standardise_data
    clean_df,           \* the frame passed in: rows [label, code, desc]
    has_comm_code_col,  \* whether the frame has a commodity_code column
    clean_result,       \* the frame returned
    clean_exc,
    clean_pc,
    \* tariff_analysis/code/word_doc_processor.py: run_processor
    processor

codeVars == <<comm_code_in_df, comm_code, standardised, code_pc>>
archVars == <<dir_exists, dir_files, dir_subdirs, unreadable,
              archive_exists, archive_names, zip_members, to_zip, file_list,
              orig_files, arch_pc>>
ldaVars == <<run_model, single_model, num_topics, topics, cv, lda_i,
             models_and_coherence, lda_calls, models_cvs_exists, models_cvs_file,
             m_c, lda_pc>>
tpVars == <<tp_entry, tp_df, stopwords_arg, self_stopwords, check_sp, text,
            jargon_replaced, token_list, no_stop_list, processed_text, tp_pc>>
nlpVars == <<text_ser, stop_words, nlp_result, nlp_pc>>
descVars == <<desc_df, goods_description, desc_pc>>
readVars == <<read_fn, read_run_processor, read_path, read_fault, read_num_rows, file_rows, read_df, read_result, read_exc, read_pc>>
sumVars == <<summary_bounds, num_words, min_percent, max_percent, self_bounds, sum_exc, sum_pc>>
trainVars == <<model_params, save_model, train_i, train_best, best_model,
              saved_model, train_exc, train_pc>>
predVars == <<model_dir, pred_df, id_col, f_name, tf_idf, clf_name, clf, pred_results, pred_exc, pred_pc>>
pollVars == <<urls, num_requests, wait_time, poll_i, url, num_clicks, clicks_done, clicked, pauses, open_browsers, url_log, click_log, pause_log, poll_pc>>
cliVars == <<lda_opt>>
dashVars == <<app_kind, checkins_df, edges_df, dates, daily_fig, map_fig, network_fig, dash_pc>>
cleanVars == <<clean_df, has_comm_code_col, clean_result, clean_exc, clean_pc>>
procVars == <<processor>>
vars == <<codeVars, archVars, ldaVars, tpVars, nlpVars, descVars, readVars, sumVars, trainVars, predVars, pollVars, cliVars, dashVars, cleanVars, procVars>>

\* the variables of the other programs, which a program leaves alone
codeRest == <<archVars, ldaVars, tpVars, nlpVars, descVars, readVars, sumVars, trainVars, predVars, pollVars, cliVars, dashVars, cleanVars, procVars>>
archRest == <<codeVars, ldaVars, tpVars, nlpVars, descVars, readVars, sumVars, trainVars, predVars, pollVars, cliVars, dashVars, cleanVars, procVars>>
ldaRest == <<codeVars, archVars, tpVars, nlpVars, descVars, readVars, sumVars, trainVars, predVars, pollVars, cliVars, dashVars, cleanVars, procVars>>
tpRest == <<codeVars, archVars, ldaVars, nlpVars, descVars, readVars, sumVars, trainVars, predVars, pollVars, cliVars, dashVars, cleanVars, procVars>>
nlpRest == <<codeVars, archVars, ldaVars, tpVars, descVars, readVars, sumVars, trainVars, predVars, pollVars, cliVars, dashVars, cleanVars, procVars>>
descRest == <<codeVars, archVars, ldaVars, tpVars, nlpVars, readVars, sumVars, trainVars, predVars, pollVars, cliVars, dashVars, cleanVars, procVars>>
readRest == <<codeVars, archVars, ldaVars, tpVars, nlpVars, descVars, sumVars, trainVars, predVars, pollVars, cliVars, dashVars, cleanVars, procVars>>
sumRest == <<codeVars, archVars, ldaVars, tpVars, nlpVars, descVars, readVars, trainVars, predVars, pollVars, cliVars, dashVars, cleanVars, procVars>>
trainRest == <<codeVars, archVars, ldaVars, tpVars, nlpVars, descVars, readVars, sumVars, predVars, pollVars, cliVars, dashVars, cleanVars, procVars>>
predRest == <<codeVars, archVars, ldaVars, tpVars, nlpVars, descVars, readVars, sumVars, trainVars, pollVars, cliVars, dashVars, cleanVars, procVars>>
pollRest == <<codeVars, archVars, ldaVars, tpVars, nlpVars, descVars, readVars, sumVars, trainVars, predVars, cliVars, dashVars, cleanVars, procVars>>
cliRest == <<codeVars, archVars, ldaVars, tpVars, nlpVars, descVars, readVars, sumVars, trainVars, predVars, pollVars, dashVars, cleanVars, procVars>>
dashRest == <<codeVars, archVars, ldaVars, tpVars, nlpVars, descVars, readVars, sumVars, trainVars, predVars, pollVars, cliVars, cleanVars, procVars>>
cleanRest == <<codeVars, archVars, ldaVars, tpVars, nlpVars, descVars, readVars, sumVars, trainVars, predVars, pollVars, cliVars, dashVars, procVars>>
procRest == <<codeVars, archVars, ldaVars, tpVars, nlpVars, descVars, readVars, sumVars, trainVars, predVars, pollVars, cliVars, dashVars, cleanVars>>

\* Python's None / pandas' NaN / a cell of a column that is not there: a value
\* that is no string (strings are sequences of single characters)
NoValue == <<"None">>

----------------------------------------------------------------------------
(* Generic helpers on sequences *)

\* All sequences over S of length 0..n
SeqsUpTo(S, n) == UNION {[1..k -> S] : k \in 0..n}

\* s[i..], the suffix starting at position i
From(s, i) == SubSeq(s, i, Len(s))

\* s[..i], the prefix ending at position i
UpTo(s, i) == SubSeq(s, 1, i)

\* whether pat occurs in s at position i
OccursAt(s, pat, i) ==
    /\ i >= 1
    /\ i + Len(pat) - 1 <= Len(s)
    /\ SubSeq(s, i, i + Len(pat) - 1) = pat

\* the positions at which pat occurs in s
Occurrences(s, pat) == {i \in 1..Len(s) : OccursAt(s, pat, i)}

Contains(s, pat) == Occurrences(s, pat) # {}

Min(S) == CHOOSE x \in S : \A y \in S : x <= y
Max(S) == CHOOSE x \in S : \A y \in S : x >= y

\* the range of a sequence
Range(s) == {s[i] : i \in DOMAIN s}

\* all orderings of the finite set S, as sequences without repetition
Orderings(S) == {s \in [1..Cardinality(S) -> S] : Range(s) = S}

----------------------------------------------------------------------------
(* tariff_analysis/code/utils.py: add_standardised_comm_code *)

\* the characters a commodity-code cell is made of in the model
CodeChars == {"0", "1", "."}
Digits == {"0", "1"}

\* the longest commodity-code cell of the model
MaxCodeLen == 11

\* width=10 of .str.ljust
CodeWidth == 10

\* .str.replace(r"\D+", "", regex=True): every run of non-digits is removed
RECURSIVE StripNonDigits(_)
StripNonDigits(s) ==
    IF s = <<>> THEN <<>>
    ELSE IF Head(s) \in Digits THEN <<Head(s)>> \o StripNonDigits(Tail(s))
    ELSE StripNonDigits(Tail(s))

\* .str.ljust(width, fillchar): fillchar is appended while the string is
\* shorter than width; a string of width or more characters is unchanged
RECURSIVE LJust(_, _, _)
LJust(s, width, fillchar) ==
    IF Len(s) >= width THEN s ELSE LJust(s \o <<fillchar>>, width, fillchar)

StandardiseCell(s) == LJust(StripNonDigits(s), CodeWidth, "0")

CodeInit ==
    /\ comm_code_in_df \in BOOLEAN
    /\ comm_code \in SeqsUpTo(CodeChars, MaxCodeLen)
    /\ standardised = NoValue
    /\ code_pc = "start"

CodeIdle ==
    /\ comm_code_in_df = FALSE
    /\ comm_code = <<>>
    /\ standardised = NoValue
    /\ code_pc = "idle"

\* if comm_code_col in df.columns: df[new_col] = ...
AddStandardisedCommCode ==
    /\ code_pc = "start"
    /\ comm_code_in_df
    /\ standardised' = StandardiseCell(comm_code)
    /\ code_pc' = "returned"
    /\ UNCHANGED <<comm_code_in_df, comm_code, codeRest>>

\* else: logger.warning(...); df is returned as it came
AddStandardisedCommCodeNoColumn ==
    /\ code_pc = "start"
    /\ ~comm_code_in_df
    /\ code_pc' = "returned"
    /\ UNCHANGED <<comm_code_in_df, comm_code, standardised, codeRest>>

CodeNext == AddStandardisedCommCode \/ AddStandardisedCommCodeNoColumn

----------------------------------------------------------------------------
(* tariff_analysis/code/utils.py: auto_archive_files and its helpers *)

\* File names start with a timestamp in TIME_FORMAT (add_timestamp,
\* write_file_info); a file is <<timestamp, rest of the name>>.
Timestamps == {"20211103-132021", "20211105-133123"}
Files == {<<"20211103-132021", "au_rates.csv">>,
          <<"20211103-132021", "input_files.txt">>,
          <<"20211105-133123", "au_rates.csv">>}
SubDirs == {"demo"}

\* zip_name = f"{os.path.basename(file_list[0])[:num_chars]}_results.zip",
\* and "results.zip" when file_list[0] raises (None, or an empty list)
ZipName(fl) ==
    IF fl = NoValue \/ fl = <<>> THEN <<"", "results.zip">>
    ELSE <<fl[1][1], "_results.zip">>

ZipNames == {<<t, "_results.zip">> : t \in Timestamps} \cup {<<"", "results.zip">>}

\* for f in file_list: zip_obj.write(f, ...); the first file that cannot be
\* written (no read permission, a modification time before 1980) raises, and
\* the archive keeps the files written before it
RECURSIVE ZipWritten(_)
ZipWritten(fl) ==
    IF fl = NoValue \/ fl = <<>> THEN {}
    ELSE IF Head(fl) \in unreadable \/ Head(fl) \notin dir_files THEN {}
    ELSE {Head(fl)} \cup ZipWritten(Tail(fl))

ArchInit ==
    /\ dir_exists \in BOOLEAN
    /\ dir_files \in SUBSET Files
    /\ dir_subdirs \in SUBSET SubDirs
    /\ (~dir_exists => dir_files = {} /\ dir_subdirs = {})
    /\ unreadable \in SUBSET dir_files
    /\ archive_exists \in BOOLEAN
    /\ archive_names = {}
    /\ zip_members = <<>>
    /\ to_zip \in BOOLEAN
    /\ file_list = NoValue
    /\ orig_files = dir_files
    /\ arch_pc = "start"

ArchIdle ==
    /\ dir_exists = FALSE
    /\ dir_files = {}
    /\ dir_subdirs = {}
    /\ unreadable = {}
    /\ archive_exists = FALSE
    /\ archive_names = {}
    /\ zip_members = <<>>
    /\ to_zip = FALSE
    /\ file_list = NoValue
    /\ orig_files = {}
    /\ arch_pc = "idle"

\* if not os.path.exists(archive_dir): os.makedirs(archive_dir)
\* if to_zip: file_list = get_all_files_in_dir(dir_name)
\* os.scandir yields the entries in arbitrary order; when it raises the error
\* is logged and get_all_files_in_dir returns None
GetAllFilesInDir ==
    /\ arch_pc = "start"
    /\ to_zip
    /\ archive_exists' = TRUE
    /\ IF dir_exists
       THEN file_list' \in Orderings(dir_files)
       ELSE file_list' = NoValue
    /\ arch_pc' = "listed"
    /\ UNCHANGED <<dir_exists, dir_files, dir_subdirs, unreadable,
                   archive_names, zip_members, to_zip, orig_files, archRest>>

\* add_files_to_zip(archive_dir, file_list): ZipFile(zip_path, mode="w")
\* creates (or truncates) the archive, then every file is written to it;
\* an exception is logged and the function returns normally
AddFilesToZip ==
    /\ arch_pc = "listed"
    /\ LET zn == ZipName(file_list)
       IN /\ archive_names' = archive_names \cup {zn}
          /\ zip_members' = [n \in DOMAIN zip_members \cup {zn} |->
                               IF n = zn THEN ZipWritten(file_list)
                               ELSE zip_members[n]]
    /\ arch_pc' = "zipped"
    /\ UNCHANGED <<dir_exists, dir_files, dir_subdirs, unreadable,
                   archive_exists, to_zip, file_list, orig_files, archRest>>

\* delete_files_from_dir(file_list): os.remove(f) for every f (removing a
\* file needs no permission on the file itself).  file_list None makes the
\* for statement raise TypeError, which nothing catches.
DeleteFilesFromDir ==
    /\ arch_pc = "zipped"
    /\ IF file_list = NoValue
       THEN /\ arch_pc' = "raised"
            /\ UNCHANGED dir_files
       ELSE /\ arch_pc' = "returned"
            /\ dir_files' = dir_files \ Range(file_list)
    /\ unreadable' = unreadable \cap dir_files'
    /\ UNCHANGED <<dir_exists, dir_subdirs, archive_exists,
                   archive_names, zip_members, to_zip, file_list, orig_files,
                   archRest>>

\* else: pass
MoveFilesToArchive ==
    /\ arch_pc = "start"
    /\ ~to_zip
    /\ archive_exists' = TRUE
    /\ arch_pc' = "returned"
    /\ UNCHANGED <<dir_exists, dir_files, dir_subdirs, unreadable,
                   archive_names, zip_members, to_zip, file_list, orig_files,
                   archRest>>

ArchNext ==
    \/ GetAllFilesInDir
    \/ AddFilesToZip
    \/ DeleteFilesFromDir
    \/ MoveFilesToArchive

----------------------------------------------------------------------------
(* topic_modelling/code/topic_modelling.py: the LDA model-selection loop *)

\* the largest topic count of the model
MaxTopics == 4
TopicCounts == 1..MaxTopics

\* num_topics=None, the default of run_lda
NoTopics == 0

\* coherence scores, in tenths
Scores == {3, 5}

\* LdaMulticore(corpus, num_topics=num_topics, random_state=seed, ...): with
\* the corpus and the seed fixed, the model is determined by its topic count
LdaMulticore(n) == [num_topics |-> n]

\* CoherenceModel(model=model, ...).get_coherence()
GetCoherence(model) == cv[model.num_topics]

\* rng = [num_topics, num_topics+1, 1] if single_model
\*       else [topics["start"], topics["limit"], topics["step"]]
Rng ==
    IF single_model THEN [start |-> num_topics, limit |-> num_topics + 1, step |-> 1]
    ELSE topics

\* a range that takes its limit in
InRangeInclusive(i, r) == i <= r.limit
\* range(rng[0], rng[1], rng[2]) with a positive step goes on while i < rng[1]
InRange(i, r) == i < r.limit

\* a save_artifacts that keeps the best-scoring entry only
BestOnly(mc) ==
    IF mc = <<>> THEN <<>>
    ELSE <<mc[CHOOSE j \in DOMAIN mc :
                \A k \in DOMAIN mc : mc[k].coherence <= mc[j].coherence]>>
\* pickle.dump(model_coherence, f): the whole list is written
PickleDump(mc) == mc

LdaInit ==
    /\ run_model \in BOOLEAN
    /\ single_model \in BOOLEAN
    /\ num_topics \in TopicCounts \cup {NoTopics}
    /\ topics \in [start : TopicCounts, limit : 1..(MaxTopics + 1), step : 1..2]
    /\ cv \in [TopicCounts -> Scores]
    /\ lda_i = 0
    /\ models_and_coherence = <<>>
    /\ lda_calls = <<>>
    /\ models_cvs_exists \in BOOLEAN
    /\ models_cvs_file = <<>>
    /\ m_c = <<>>
    /\ lda_pc = "start"

LdaIdle ==
    /\ run_model = FALSE
    /\ single_model = FALSE
    /\ num_topics = NoTopics
    /\ topics = [start |-> 1, limit |-> 1, step |-> 1]
    /\ cv = <<>>
    /\ lda_i = 0
    /\ models_and_coherence = <<>>
    /\ lda_calls = <<>>
    /\ models_cvs_exists = FALSE
    /\ models_cvs_file = <<>>
    /\ m_c = <<>>
    /\ lda_pc = "idle"

\* run_lda(run_model=True): the modeller is built and
\* get_models_and_coherence computes rng; num_topics + 1 raises TypeError
\* when single_model is set and num_topics is None
EnterLoop ==
    /\ lda_pc = "start"
    /\ run_model
    /\ IF single_model /\ num_topics = NoTopics
       THEN /\ lda_pc' = "raised"
            /\ UNCHANGED lda_i
       ELSE /\ lda_pc' = "loop"
            /\ lda_i' = Rng.start
    /\ UNCHANGED <<run_model, single_model, num_topics, topics, cv,
                   models_and_coherence, lda_calls, models_cvs_exists,
                   models_cvs_file, m_c, ldaRest>>

\* one iteration of: for i in range(...): model = self.run_lda(i);
\* cv_model = self.run_coherence(model); models_and_coherence.append(...)
TrainAndScore ==
    /\ lda_pc = "loop"
    /\ InRange(lda_i, Rng)
    /\ LET model == LdaMulticore(lda_i)
       IN models_and_coherence' = Append(models_and_coherence,
              [topics |-> lda_i, model |-> model, coherence |-> GetCoherence(model)])
    /\ lda_calls' = Append(lda_calls, lda_i)
    /\ lda_i' = lda_i + Rng.step
    /\ UNCHANGED <<run_model, single_model, num_topics, topics, cv,
                   models_cvs_exists, models_cvs_file, m_c, lda_pc, ldaRest>>

\* the range is exhausted: get_models_and_coherence and run_topic_modelling
\* return the list
LoopDone ==
    /\ lda_pc = "loop"
    /\ ~InRange(lda_i, Rng)
    /\ lda_pc' = "trained"
    /\ UNCHANGED <<run_model, single_model, num_topics, topics, cv, lda_i,
                   models_and_coherence, lda_calls, models_cvs_exists,
                   models_cvs_file, m_c, ldaRest>>

\* save_artifacts(dct, corpus, m_c); return dct, corpus, m_c
SaveArtifacts ==
    /\ lda_pc = "trained"
    /\ models_cvs_exists' = TRUE
    /\ models_cvs_file' = PickleDump(models_and_coherence)
    /\ m_c' = models_and_coherence
    /\ lda_pc' = "returned"
    /\ UNCHANGED <<run_model, single_model, num_topics, topics, cv, lda_i,
                   models_and_coherence, lda_calls, ldaRest>>

\* run_lda(run_model=False): load_artifacts(model_path); open() raises
\* FileNotFoundError, which nothing catches, when the file is not there
LoadArtifacts ==
    /\ lda_pc = "start"
    /\ ~run_model
    /\ IF ~models_cvs_exists
       THEN /\ lda_pc' = "raised"
            /\ UNCHANGED m_c
       ELSE /\ lda_pc' = "returned"
            /\ m_c' = models_cvs_file
    /\ UNCHANGED <<run_model, single_model, num_topics, topics, cv, lda_i,
                   models_and_coherence, lda_calls, models_cvs_exists,
                   models_cvs_file, ldaRest>>

LdaNext ==
    \/ EnterLoop
    \/ TrainAndScore
    \/ LoopDone
    \/ SaveArtifacts
    \/ LoadArtifacts

----------------------------------------------------------------------------
(* topic_modelling/code/text_processing.py: TextProcessor *)

(* A document is a sequence of pieces: words, and " " for the white space    *)
(* between them.  A token list is a sequence of words.                       *)
RawPieces == {"Cats", "caat", "growthgateway", "5k", " "}

\* the longest document of the model, in pieces
MaxDocLen == 2
Docs == SeqsUpTo(RawPieces, MaxDocLen)

\* the documents of df
DocIds == {1, 2}

\* stopwords.words("english"), of which the model keeps one word
NltkStopwords == <<"the">>
\* conf.EXTRA_STOP_WORDS, of which the model keeps two words
ExtraStopWords == <<"growth", "gateway">>
\* conf.KEEP_LIST: "lc", "ita" and the replacement values of REPLACE_MAP
KeepList == {"lc", "ita", "MONEY", "DATE", "URL"}

\* get_stopwords
GetStopwords == NltkStopwords \o ExtraStopWords

\* self.stopwords = stopwords if stopwords else self.get_stopwords()
StopwordsOf(arg) == IF arg = NoValue \/ arg = <<>> THEN GetStopwords ELSE arg

\* the stopwords arguments of the model
StopwordArgs == {NoValue, <<>>, <<"cats">>}

\* str.lower() of one piece
LowerPiece(w) == IF w = "Cats" THEN "cats" ELSE w

\* self.df.str.lower()
Lower(doc) == [i \in DOMAIN doc |-> LowerPiece(doc[i])]

\* normalise_jargon: text.replace(self.replace_map, regex=True); of
\* conf.REPLACE_MAP the pieces of the model meet "growthgateway" and the
\* MONEY pattern (\dk)
RECURSIVE NormaliseJargon(_)
NormaliseJargon(doc) ==
    IF doc = <<>> THEN <<>>
    ELSE (CASE Head(doc) = "growthgateway" -> <<"growth", " ", "gateway">>
            [] Head(doc) = "5k" -> <<"MONEY">>
            [] OTHER -> <<Head(doc)>>) \o NormaliseJargon(Tail(doc))

\* word_tokenize: the words of the text, without the white space
RECURSIVE WordTokenize(_)
WordTokenize(doc) ==
    IF doc = <<>> THEN <<>>
    ELSE IF Head(doc) = " " THEN WordTokenize(Tail(doc))
    ELSE <<Head(doc)>> \o WordTokenize(Tail(doc))

\* tokenise: if text: return word_tokenize(text); return None
Tokenise(doc) == IF doc # <<>> THEN WordTokenize(doc) ELSE NoValue

\* [word for word in words if (word not in stop)]
RECURSIVE NotIn(_, _)
NotIn(words, stop) ==
    IF words = <<>> THEN <<>>
    ELSE IF Head(words) \in Range(stop) THEN NotIn(Tail(words), stop)
    ELSE <<Head(words)>> \o NotIn(Tail(words), stop)

\* a remove_stopwords that ignores the configured list
RemoveDefaultStopwords(words) ==
    IF words # NoValue /\ words # <<>> THEN NotIn(words, GetStopwords) ELSE NoValue

\* remove_stopwords: if words: return [...]; else: return None
RemoveStopwords(words) ==
    IF words # NoValue /\ words # <<>> THEN NotIn(words, self_stopwords) ELSE NoValue

\* self.vocab: first letter -> the words of the vocabulary with that letter
Vocab == [c |-> <<"cats", "cat">>, g |-> <<"gateway", "growth">>]

\* word[0]
FirstLetter(w) ==
    CASE w \in {"cats", "cat", "caat"} -> "c"
      [] w \in {"growth", "gateway", "growthgateway"} -> "g"
      [] w = "Cats" -> "C"
      [] w = "the" -> "t"
      [] OTHER -> "5"

\* nltk's edit_distance(word, w), for the word the vocabulary does not hold
EditDistance(word, w) ==
    CASE word = "caat" /\ w = "cat" -> 1
      [] word = "caat" /\ w = "cats" -> 2
      [] OTHER -> IF word = w THEN 0 ELSE 3

\* sorted(options, key=lambda val: val[0])[0][1]: the sort is stable, so of
\* the words at the smallest distance the first of the vocabulary list wins
Suggestion(word) ==
    IF FirstLetter(word) \in DOMAIN Vocab /\ word \notin Range(Vocab[FirstLetter(word)])
    THEN LET ws == Vocab[FirstLetter(word)]
             best == CHOOSE i \in DOMAIN ws :
                       /\ \A j \in DOMAIN ws :
                             EditDistance(word, ws[i]) <= EditDistance(word, ws[j])
                       /\ \A j \in 1..(i - 1) :
                             EditDistance(word, ws[j]) > EditDistance(word, ws[i])
         IN ws[best]
    ELSE word

\* self.nlp(word)[0].lemma_
Lemma(w) == IF w = "cats" THEN "cat" ELSE w

\* correct_lemmatise_word
CorrectLemmatiseWord(word) == Lemma(Suggestion(word))

\* correct_lemmatise_words
CorrectLemmatiseWords(words) ==
    IF words # NoValue /\ words # <<>>
    THEN [i \in DOMAIN words |->
            IF words[i] \notin KeepList THEN CorrectLemmatiseWord(words[i])
            ELSE words[i]]
    ELSE <<>>

\* lemmatise_words
LemmatiseWords(words) ==
    IF words # NoValue /\ words # <<>>
    THEN [i \in DOMAIN words |->
            IF words[i] \notin KeepList THEN Lemma(words[i]) ELSE words[i]]
    ELSE <<>>

\* the last step of process_text with a check_sp that is always on
AlwaysCorrect(words) == CorrectLemmatiseWords(words)

\* if self.check_sp: correct_lemmatise_words(...) else: lemmatise_words(...)
LemmatiseStep(words) ==
    IF check_sp THEN CorrectLemmatiseWords(words) ELSE LemmatiseWords(words)

Unset == [d \in DocIds |-> NoValue]

\* get_processed_text(src, num_rows, run_processor=True) builds
\* TextProcessor(df[src["query_col"]]): check_sp and stopwords keep their
\* defaults; a caller of the class chooses both
TpInit ==
    /\ tp_entry \in {"get_processed_text", "TextProcessor"}
    /\ tp_df \in [DocIds -> Docs]
    /\ stopwords_arg \in (IF tp_entry = "get_processed_text" THEN {NoValue}
                          ELSE StopwordArgs)
    /\ self_stopwords = StopwordsOf(stopwords_arg)
    /\ check_sp \in (IF tp_entry = "get_processed_text" THEN {FALSE} ELSE BOOLEAN)
    /\ text = Unset
    /\ jargon_replaced = Unset
    /\ token_list = Unset
    /\ no_stop_list = Unset
    /\ processed_text = Unset
    /\ tp_pc = "start"

TpIdle ==
    /\ tp_entry = "idle"
    /\ tp_df = <<>>
    /\ stopwords_arg = NoValue
    /\ self_stopwords = <<>>
    /\ check_sp = FALSE
    /\ text = <<>>
    /\ jargon_replaced = <<>>
    /\ token_list = <<>>
    /\ no_stop_list = <<>>
    /\ processed_text = <<>>
    /\ tp_pc = "idle"

\* text = pd.DataFrame(self.df.str.lower())
LowerCase ==
    /\ tp_pc = "start"
    /\ tp_entry \in {"get_processed_text", "TextProcessor"}
    /\ text' = [d \in DocIds |-> Lower(tp_df[d])]
    /\ tp_pc' = "lowered"
    /\ UNCHANGED <<tp_entry, tp_df, stopwords_arg, self_stopwords, check_sp,
                   jargon_replaced, token_list, no_stop_list, processed_text, tpRest>>

\* text["jargon_replaced"] = self.normalise_jargon(text)
ReplaceJargon ==
    /\ tp_pc = "lowered"
    /\ jargon_replaced' = [d \in DocIds |-> NormaliseJargon(text[d])]
    /\ tp_pc' = "jargon_replaced"
    /\ UNCHANGED <<tp_entry, tp_df, stopwords_arg, self_stopwords, check_sp,
                   text, token_list, no_stop_list, processed_text, tpRest>>

\* text.jargon_replaced.apply(self.process_text): process_text of the next
\* document
ProcessText ==
    /\ tp_pc = "jargon_replaced"
    /\ \E d \in DocIds :
          /\ processed_text[d] = NoValue
          /\ \A e \in DocIds : e < d => processed_text[e] # NoValue
          /\ LET tl == Tokenise(jargon_replaced[d])
                 nsl == RemoveStopwords(tl)
             IN /\ token_list' = [token_list EXCEPT ![d] = tl]
                /\ no_stop_list' = [no_stop_list EXCEPT ![d] = nsl]
                /\ processed_text' = [processed_text EXCEPT ![d] = LemmatiseStep(nsl)]
    /\ UNCHANGED <<tp_entry, tp_df, stopwords_arg, self_stopwords, check_sp,
                   text, jargon_replaced, tp_pc, tpRest>>

\* return text.processed_text
ReturnProcessed ==
    /\ tp_pc = "jargon_replaced"
    /\ \A d \in DocIds : processed_text[d] # NoValue
    /\ tp_pc' = "returned"
    /\ UNCHANGED <<tp_entry, tp_df, stopwords_arg, self_stopwords, check_sp,
                   text, jargon_replaced, token_list, no_stop_list,
                   processed_text, tpRest>>

TpNext ==
    \/ LowerCase
    \/ ReplaceJargon
    \/ ProcessText
    \/ ReturnProcessed

(* remove_stopwords called on its own, on any token list *)
Tokens == {"cats", "Cats", "growth", "the"}

\* the longest token list of the model
MaxTokens == 3

StopInit ==
    /\ tp_entry = "remove_stopwords"
    /\ tp_df = <<>>
    /\ stopwords_arg \in StopwordArgs
    /\ self_stopwords = StopwordsOf(stopwords_arg)
    /\ check_sp \in BOOLEAN
    /\ text = <<>>
    /\ jargon_replaced = <<>>
    /\ token_list \in {<<w>> : w \in SeqsUpTo(Tokens, MaxTokens)}
    /\ no_stop_list = <<NoValue>>
    /\ processed_text = <<>>
    /\ tp_pc = "start"

\* tp.remove_stopwords(words)
CallRemoveStopwords ==
    /\ tp_pc = "start"
    /\ tp_entry = "remove_stopwords"
    /\ no_stop_list' = <<RemoveStopwords(token_list[1])>>
    /\ tp_pc' = "returned"
    /\ UNCHANGED <<tp_entry, tp_df, stopwords_arg, self_stopwords, check_sp,
                   text, jargon_replaced, token_list, processed_text, tpRest>>

StopNext == CallRemoveStopwords

----------------------------------------------------------------------------
(* enquiries-classification/nlp_processing_base.py:                          *)
(* NlpProcessingBase.remove_stop_words_and_set_case                          *)

\* the characters of a text cell in the model
NlpChars == {"a", "A", "n", " "}

\* the longest text cell of the model
MaxCellLen == 4

\* \w of the regular expression
IsWordChar(ch) == ch \in {"a", "A", "n"}

\* stopwords.words("english"), of which the model keeps two words
EnglishStopWords == <<<<"a">>, <<"a", "n">>>>

\* \b at position i: exactly one of the characters before and at i is a
\* word character (there is none outside the string)
WordBoundary(s, i) ==
    LET before == i > 1 /\ i - 1 <= Len(s) /\ IsWordChar(s[i - 1])
        at == i >= 1 /\ i <= Len(s) /\ IsWordChar(s[i])
    IN before # at

\* whether \b(?:alt)\b matches s at position i
AltMatches(s, alt, i) ==
    /\ WordBoundary(s, i)
    /\ OccursAt(s, alt, i)
    /\ WordBoundary(s, i + Len(alt))

\* the length of the match of \b(?:w1|w2|...)\b at position i: the first
\* alternative that matches, 0 when there is none
MatchLen(s, stops, i) ==
    LET hits == {k \in DOMAIN stops : AltMatches(s, stops[k], i)}
    IN IF hits = {} THEN 0 ELSE Len(stops[Min(hits)])

\* str.replace(stop_str, "", regex=True): the string is scanned from the
\* left, every match is left out
RECURSIVE RegexRemove(_, _, _)
RegexRemove(s, stops, i) ==
    IF i > Len(s) THEN <<>>
    ELSE IF MatchLen(s, stops, i) > 0
         THEN RegexRemove(s, stops, i + MatchLen(s, stops, i))
         ELSE <<s[i]>> \o RegexRemove(s, stops, i + 1)

\* str.lower() of one character
LowerChar(ch) == IF ch = "A" THEN "a" ELSE ch

\* str.lower()
StrLower(s) == [i \in DOMAIN s |-> LowerChar(s[i])]

\* text_ser.str.replace(stop_str, "", regex=True).str.lower()
RemoveStopWordsAndSetCase(s, stops) == StrLower(RegexRemove(s, stops, 1))

NlpInit ==
    /\ text_ser \in SeqsUpTo(NlpChars, MaxCellLen)
    /\ stop_words = EnglishStopWords
    /\ nlp_result = NoValue
    /\ nlp_pc = "start"

NlpIdle ==
    /\ text_ser = <<>>
    /\ stop_words = <<>>
    /\ nlp_result = NoValue
    /\ nlp_pc = "idle"

\* remove_stop_words_and_set_case(text_ser)
CallRemoveStopWordsAndSetCase ==
    /\ nlp_pc = "start"
    /\ nlp_result' = RemoveStopWordsAndSetCase(text_ser, stop_words)
    /\ nlp_pc' = "returned"
    /\ UNCHANGED <<text_ser, stop_words, nlpRest>>

NlpNext == CallRemoveStopWordsAndSetCase

----------------------------------------------------------------------------
(* tariff_analysis/code/word_doc_processor.py:                               *)
(* AuUsesDocIngest.extract_commodity_description                             *)

(* A Series is a sequence of rows <<index, value>>; a value is a string or   *)
(* NoValue (None, NaN).  "*" stands for the bullet chr(8226).                *)
DescChars == {"a", "\n", "-", " ", "*"}

\* the longest description of the row the model chooses freely
MaxDescLen == 4

\* descriptions in the layout of the reference document: a parent line and an
\* item line followed by a hyphen bullet, by a dot bullet, or by nothing
SampleDescs == << <<"a", "\n", "a", "\n", "-", "a">>,
                  <<"a", "\n", "a", "\n", "*", "a">>,
                  <<"a", "\n", "a">> >>

HyphensNoSpc == <<"\n", "-", "-">>
HyphensSpc == <<"\n", "-", " ", "-">>
HyphenBullet == <<"\n", "-">>
DotBullet == <<"\n", "*">>
Newline == <<"\n">>

\* the indexes of a Series
IndexOf(ser) == {ser[k][1] : k \in DOMAIN ser}

\* df[~df.index.isin(ser.index)]
NotIsin(df, ser) == SelectSeq(df, LAMBDA row : row[1] \notin IndexOf(ser))

\* ser.dropna()
DropNa(ser) == SelectSeq(ser, LAMBDA row : row[2] # NoValue)

\* str.split(pat, n=1): the parts around the first occurrence of pat
StrSplit(str, pat) ==
    IF Contains(str, pat)
    THEN LET i == Min(Occurrences(str, pat))
         IN <<UpTo(str, i - 1), From(str, i + Len(pat))>>
    ELSE <<str>>

\* str.rsplit(pat, n=1): the parts around the last occurrence of pat
StrRSplit(str, pat) ==
    IF Contains(str, pat)
    THEN LET i == Max(Occurrences(str, pat))
         IN <<UpTo(str, i - 1), From(str, i + Len(pat))>>
    ELSE <<str>>

\* expand=True gives as many columns as the longest list of parts: the
\* column number_1 exists when some row was split
HasNumber1(parts) == \E k \in DOMAIN parts : Len(parts[k][2]) = 2

\* the column number_0 of the expanded frame
Number0(parts) == [k \in DOMAIN parts |-> <<parts[k][1], parts[k][2][1]>>]

\* the column number_1 of the expanded frame: None in the rows not split
Number1(parts) ==
    [k \in DOMAIN parts |->
        <<parts[k][1], IF Len(parts[k][2]) = 2 THEN parts[k][2][2] ELSE NoValue>>]

\* replace_trailing_text: np.where(col.str[idx:] == pattern, col.str[:idx], col)
ReplaceTrailingText(str, pat) ==
    IF Len(str) >= Len(pat) /\ From(str, Len(str) - Len(pat) + 1) = pat
    THEN UpTo(str, Len(str) - Len(pat))
    ELSE str

\* a KeyError, and a Series returned
KeyError == [ok |-> FALSE, ser |-> <<>>]
Returned(ser) == [ok |-> TRUE, ser |-> ser]

\* split_on_last_newline: new_desc_cols["number_1"] raises KeyError when no
\* row holds a newline
SplitOnLastNewline(ser) ==
    LET parts == [k \in DOMAIN ser |-> <<ser[k][1], StrRSplit(ser[k][2], Newline)>>]
    IN IF HasNumber1(parts) THEN Returned(DropNa(Number1(parts))) ELSE KeyError

\* the value of the row with index idx, NoValue when the Series has none
ValueAt(ser, idx) ==
    IF idx \in IndexOf(ser)
    THEN ser[CHOOSE k \in DOMAIN ser : ser[k][1] = idx][2]
    ELSE NoValue

\* a desc_bullets that splits on the last occurrence of the pattern
DescBulletsLast(ser, pattern) ==
    LET parts == [k \in DOMAIN ser |-> <<ser[k][1], StrRSplit(ser[k][2], pattern)>>]
    IN IF HasNumber1(parts)
       THEN Returned(DropNa([k \in DOMAIN parts |->
                <<parts[k][1],
                  IF Len(parts[k][2]) = 2 THEN pattern \o parts[k][2][2] ELSE NoValue>>]))
       ELSE KeyError

\* desc_bullets: split on the first occurrence of the pattern, strip a
\* trailing "\n " and a trailing "\n" from number_0, take its last line, and
\* join first_line + pattern + number_1 (NaN where either is missing)
DescBullets(ser, pattern) ==
    LET parts == [k \in DOMAIN ser |-> <<ser[k][1], StrSplit(ser[k][2], pattern)>>]
        stripped == [k \in DOMAIN parts |->
                       <<parts[k][1],
                         ReplaceTrailingText(
                             ReplaceTrailingText(parts[k][2][1], <<"\n", " ">>),
                             Newline)>>]
        first_line == SplitOnLastNewline(stripped)
    IN IF ser = <<>> \/ ~first_line.ok \/ ~HasNumber1(parts) THEN KeyError
       ELSE Returned(DropNa([k \in DOMAIN parts |->
                <<parts[k][1],
                  IF ValueAt(first_line.ser, parts[k][1]) # NoValue
                     /\ Len(parts[k][2]) = 2
                  THEN ValueAt(first_line.ser, parts[k][1]) \o pattern \o parts[k][2][2]
                  ELSE NoValue>>]))

\* desc_hyphens_last_line: rsplit on the pattern; pattern + number_1, or an
\* empty Series when no row was split
DescHyphensLastLine(ser, pattern) ==
    LET parts == [k \in DOMAIN ser |-> <<ser[k][1], StrRSplit(ser[k][2], pattern)>>]
    IN IF HasNumber1(parts)
       THEN DropNa([k \in DOMAIN parts |->
                <<parts[k][1],
                  IF Len(parts[k][2]) = 2 THEN pattern \o parts[k][2][2] ELSE NoValue>>])
       ELSE <<>>

\* sort_index: a stable sort of the rows by index
RECURSIVE SortIndex(_)
SortIndex(ser) ==
    IF ser = <<>> THEN <<>>
    ELSE LET m == Min(IndexOf(ser))
             k == Min({j \in DOMAIN ser : ser[j][1] = m})
         IN <<ser[k]>> \o SortIndex(UpTo(ser, k - 1) \o From(ser, k + 1))

\* extract_commodity_description
ExtractCommodityDescription(df) ==
    LET single_hyphen_rows == SelectSeq(df, LAMBDA row : row[2] = <<"-">>)
        cut1 == NotIsin(df, single_hyphen_rows)
        hyphens_no_spc == DescHyphensLastLine(cut1, HyphensNoSpc)
        cut2 == NotIsin(cut1, hyphens_no_spc)
        hyphens_spc == DescHyphensLastLine(cut2, HyphensSpc)
        cut3 == NotIsin(cut2, hyphens_spc)
        multi_line_hyphens == DescBullets(cut3, HyphenBullet)
        cut4 == NotIsin(cut3, multi_line_hyphens.ser)
        multi_line_bullets == DescBullets(cut4, DotBullet)
        cut5 == NotIsin(cut4, multi_line_bullets.ser)
        last_line == SplitOnLastNewline(cut5)
        single_line_desc == NotIsin(cut5, last_line.ser)
    IN IF ~multi_line_hyphens.ok \/ ~multi_line_bullets.ok \/ ~last_line.ok
       THEN KeyError
       ELSE Returned(SortIndex(single_hyphen_rows \o hyphens_no_spc \o hyphens_spc
                               \o multi_line_hyphens.ser \o multi_line_bullets.ser
                               \o last_line.ser \o single_line_desc))

\* the descriptions of df: one row chosen freely, followed by any of the
\* sample rows
DescFrames ==
    {<<t>> \o SelectSeq(SampleDescs, LAMBDA x : x \in pick) :
        t \in SeqsUpTo(DescChars, MaxDescLen), pick \in SUBSET Range(SampleDescs)}

DescInit ==
    /\ \E texts \in DescFrames : desc_df = [k \in DOMAIN texts |-> <<k, texts[k]>>]
    /\ goods_description = <<>>
    /\ desc_pc = "start"

DescIdle ==
    /\ desc_df = <<>>
    /\ goods_description = <<>>
    /\ desc_pc = "idle"

\* goods_desc = self.extract_commodity_description(df, desc_col, new_col_name)
\* returns the Series
ExtractReturns ==
    /\ desc_pc = "start"
    /\ ExtractCommodityDescription(desc_df).ok
    /\ goods_description' = ExtractCommodityDescription(desc_df).ser
    /\ desc_pc' = "returned"
    /\ UNCHANGED <<desc_df, descRest>>

\* ... or the KeyError of a missing column leaves it
ExtractRaises ==
    /\ desc_pc = "start"
    /\ ~ExtractCommodityDescription(desc_df).ok
    /\ desc_pc' = "raised"
    /\ UNCHANGED <<desc_df, goods_description, descRest>>

DescNext == ExtractReturns \/ ExtractRaises

----------------------------------------------------------------------------
(* File readers: WordDocProcessor.get_raw_data_from_file (base.py),          *)
(* get_csv_data (utils.py), get_text_to_summarise (text_summariser.py),      *)
(* get_data / load_processed_text / get_processed_text (text_processing.py)  *)

ReadFns == {"get_raw_data_from_file", "get_csv_data", "get_text_to_summarise",
            "get_processed_text"}

\* what the library call that opens and parses the file can raise: the file
\* is missing, it may not be opened, or its content cannot be decoded
\* (JSONDecodeError and UnicodeDecodeError are ValueErrors)
ReadFaults == {"ok", "FileNotFoundError", "PermissionError", "ValueError"}

\* the most records a file holds, and the largest num_rows
MaxRows == 2

\* num_rows=None, and the None that get_data returns after its except branch
NoRows == 0
NoDf == 0

ReadInit ==
    /\ read_fn \in ReadFns
    /\ read_run_processor \in BOOLEAN
    /\ read_fn # "get_processed_text" => read_run_processor = FALSE
    /\ read_path \in BOOLEAN
    /\ read_fn # "get_text_to_summarise" => read_path = TRUE
    /\ read_fault \in ReadFaults
    /\ read_num_rows \in NoRows..MaxRows
    /\ file_rows \in 1..MaxRows
    /\ read_df = NoDf
    /\ read_result = "unset"
    /\ read_exc = "none"
    /\ read_pc = "start"

ReadIdle ==
    /\ read_fn = "none"
    /\ read_run_processor = FALSE
    /\ read_path = FALSE
    /\ read_fault = "ok"
    /\ read_num_rows = NoRows
    /\ file_rows = 1
    /\ read_df = NoDf
    /\ read_result = "unset"
    /\ read_exc = "none"
    /\ read_pc = "idle"

ReadInputs == <<read_fn, read_run_processor, read_path, read_fault,
                read_num_rows, file_rows>>

\* the reader returns value
ReadReturns(value) ==
    /\ read_result' = value
    /\ read_pc' = "returned"
    /\ UNCHANGED <<read_df, read_exc, ReadInputs, readRest>>

\* sys.exit(1)
ReadExits ==
    /\ read_pc' = "exited"
    /\ UNCHANGED <<read_df, read_result, read_exc, ReadInputs, readRest>>

\* the exception exc leaves the reader
ReadRaises(exc) ==
    /\ read_exc' = exc
    /\ read_pc' = "raised"
    /\ UNCHANGED <<read_df, read_result, ReadInputs, readRest>>

\* WordDocProcessor.get_raw_data_from_file: except Exception -> sys.exit(1)
GetRawDataFromFile ==
    /\ read_pc = "start"
    /\ read_fn = "get_raw_data_from_file"
    /\ IF read_fault # "ok" THEN ReadExits ELSE ReadReturns("doc")

\* get_csv_data: except Exception -> sys.exit(1)
GetCsvData ==
    /\ read_pc = "start"
    /\ read_fn = "get_csv_data"
    /\ IF read_fault # "ok" THEN ReadExits ELSE ReadReturns("df")

\* get_text_to_summarise: only FileNotFoundError is caught
GetTextToSummarise ==
    /\ read_pc = "start"
    /\ read_fn = "get_text_to_summarise"
    /\ IF ~read_path THEN ReadReturns("EXAMPLE_TEXT")
       ELSE IF read_fault = "ok" THEN ReadReturns("f.read()")
       ELSE IF read_fault = "FileNotFoundError" THEN ReadReturns("EXAMPLE_TEXT")
       ELSE ReadRaises(read_fault)

\* get_processed_text, run_processor=True: df = get_data(...).  The except
\* branch prints and falls off the end (None); df.sample in the else branch
\* raises ValueError for a sample larger than the population.
GetData ==
    /\ read_pc = "start"
    /\ read_fn = "get_processed_text"
    /\ read_run_processor
    /\ IF read_fault = "ok" /\ read_num_rows # NoRows /\ read_num_rows > file_rows
       THEN ReadRaises("ValueError")
       ELSE /\ read_df' = IF read_fault # "ok" THEN NoDf
                          ELSE IF read_num_rows # NoRows THEN read_num_rows
                          ELSE file_rows
            /\ read_pc' = "got_data"
            /\ UNCHANGED <<read_result, read_exc, ReadInputs, readRest>>

\* get_processed_text, run_processor=True, from len(df) on: len(None) and
\* None[...] raise TypeError
ProcessData ==
    /\ read_pc = "got_data"
    /\ IF read_df = NoDf THEN ReadRaises("TypeError")
       ELSE ReadReturns("processed_text")

\* get_processed_text, run_processor=False:
\* pd.Series(load_processed_text(dir)); only FileNotFoundError is caught, and
\* pd.Series(None) is an empty Series
LoadProcessedText ==
    /\ read_pc = "start"
    /\ read_fn = "get_processed_text"
    /\ ~read_run_processor
    /\ IF read_fault = "ok" THEN ReadReturns("pd.Series(json)")
       ELSE IF read_fault = "FileNotFoundError" THEN ReadReturns("pd.Series(None)")
       ELSE ReadRaises(read_fault)

ReadNext ==
    \/ GetRawDataFromFile
    \/ GetCsvData
    \/ GetTextToSummarise
    \/ GetData
    \/ ProcessData
    \/ LoadProcessedText

----------------------------------------------------------------------------
(* text-summariser/text_summariser.py: TextSummariser.set_summary_bounds     *)

\* the largest item of a bounds tuple, the most items, the most words
MaxBound == 3
MaxItems == 3
MaxWords == 3

\* the items of a bounds argument are ints, also negative ones
BoundItems == (0 - 1)..MaxBound

\* the bounds argument: None, a tuple, or a list (not a tuple)
BoundsArgs ==
    {[type |-> "NoneType", items |-> <<>>]}
    \cup {[type |-> "tuple", items |-> i] : i \in SeqsUpTo(BoundItems, MaxItems)}
    \cup {[type |-> "list", items |-> i] : i \in SeqsUpTo(BoundItems, 2)}

\* (min_percent, max_percent): the defaults (0.1, 0.8), and (0.5, 1.0)
Percents == {<<10, 80>>, <<50, 100>>}

\* int(num_words * percent)
IntOfShare(n, percent) == (n * percent) \div 100

NoExc == <<"none", "">>
MsgNotTuple == "should be of type 'tuple'"
MsgNotTwoItems == "should have 2 items"
MsgLowerNotSmaller == "should be smaller than the upper bound"
MsgLowerAboveWords == "should be less than the number of words in the text"

\* a comparison that lets equal bounds through
StrictlyAbove(lower, upper) == lower > upper

\* summary_bounds[0] >= summary_bounds[1]
LowerNotBelowUpper(lower, upper) == lower >= upper

\* set_summary_bounds: [exc, value]
SetSummaryBoundsOf(b, n, minp, maxp) ==
    IF b.type # "NoneType"
    THEN IF b.type # "tuple"
         THEN [exc |-> <<"TypeError", MsgNotTuple>>, value |-> <<>>]
         ELSE IF Len(b.items) # 2
         THEN [exc |-> <<"ValueError", MsgNotTwoItems>>, value |-> <<>>]
         ELSE IF LowerNotBelowUpper(b.items[1], b.items[2])
         THEN [exc |-> <<"ValueError", MsgLowerNotSmaller>>, value |-> <<>>]
         ELSE IF b.items[1] > n
         THEN [exc |-> <<"ValueError", MsgLowerAboveWords>>, value |-> <<>>]
         ELSE [exc |-> NoExc, value |-> b.items]
    ELSE [exc |-> NoExc, value |-> <<IntOfShare(n, minp), IntOfShare(n, maxp)>>]

SumInit ==
    /\ summary_bounds \in BoundsArgs
    /\ num_words \in 0..MaxWords
    /\ \E p \in Percents : min_percent = p[1] /\ max_percent = p[2]
    /\ self_bounds = <<>>
    /\ sum_exc = NoExc
    /\ sum_pc = "start"

SumIdle ==
    /\ summary_bounds = [type |-> "NoneType", items |-> <<>>]
    /\ num_words = 0
    /\ min_percent = 10
    /\ max_percent = 80
    /\ self_bounds = <<>>
    /\ sum_exc = NoExc
    /\ sum_pc = "idle"

\* self.bounds = self.set_summary_bounds(bounds)
SetSummaryBounds ==
    /\ sum_pc = "start"
    /\ LET r == SetSummaryBoundsOf(summary_bounds, num_words, min_percent, max_percent)
       IN /\ r.exc = NoExc
          /\ self_bounds' = r.value
    /\ sum_pc' = "returned"
    /\ UNCHANGED <<summary_bounds, num_words, min_percent, max_percent, sum_exc, sumRest>>

\* ... or the exception of a failed check leaves __init__
SetSummaryBoundsRaises ==
    /\ sum_pc = "start"
    /\ LET r == SetSummaryBoundsOf(summary_bounds, num_words, min_percent, max_percent)
       IN /\ r.exc # NoExc
          /\ sum_exc' = r.exc
    /\ sum_pc' = "raised"
    /\ UNCHANGED <<summary_bounds, num_words, min_percent, max_percent, self_bounds, sumRest>>

SumNext == SetSummaryBounds \/ SetSummaryBoundsRaises

----------------------------------------------------------------------------
(* enquiries-classification/topic_classifier_train.py: ModelTrain            *)

\* the most items of model_params, and the highest level of a test score
MaxModels == 3
MaxScore == 2

\* a model is named by its position in model_params; None is NoModel
NoModel == 0

\* the score -1.0 of the initial best and of a failed model
FailScore == 0 - 1

\* what test_scorer returns, as levels: accuracy_score gives 0 and above; a
\* scorer with negative values (matthews_corrcoef, r2_score) also gives the
\* levels -1.0 and below
ScoreLevels == (0 - 2)..MaxScore

\* grid_search.fit raised
FitRaises == 0 - 3

\* train_all_models fell off its end: None
NoBest == [model |-> NoModel, score |-> FitRaises]

ModelParams == SeqsUpTo({FitRaises} \cup ScoreLevels, MaxModels)

\* train_single_model for item k of model_settings
TrainSingleModel(k) ==
    IF model_params[k] = FitRaises
    THEN [model |-> NoModel, score |-> FailScore]
    ELSE [model |-> k, score |-> model_params[k]]

\* a comparison that also replaces the best on an equal score
ScoreNotBelow(score, best_score) == score >= best_score

\* mod["score"] > best["score"]
ScoreAbove(score, best_score) == score > best_score

TrainInit ==
    /\ model_params \in ModelParams
    /\ save_model \in BOOLEAN
    /\ train_i = 0
    /\ train_best = [model |-> NoModel, score |-> FailScore]
    /\ best_model = NoBest
    /\ saved_model = NoModel
    /\ train_exc = "none"
    /\ train_pc = "train_all_models"

TrainIdle ==
    /\ model_params = <<>>
    /\ save_model = FALSE
    /\ train_i = 0
    /\ train_best = [model |-> NoModel, score |-> FailScore]
    /\ best_model = NoBest
    /\ saved_model = NoModel
    /\ train_exc = "none"
    /\ train_pc = "idle"

\* one iteration of: for m_s in model_settings
TrainNextModel ==
    /\ train_pc = "train_all_models"
    /\ train_i < Len(model_params)
    /\ LET mod == TrainSingleModel(train_i + 1)
       IN train_best' = IF ScoreAbove(mod.score, train_best.score) THEN mod ELSE train_best
    /\ train_i' = train_i + 1
    /\ UNCHANGED <<model_params, save_model, best_model, saved_model, train_exc,
                   train_pc, trainRest>>

\* the loop is done: return best if best["model"] is not None, else None
TrainAllModelsReturns ==
    /\ train_pc = "train_all_models"
    /\ train_i = Len(model_params)
    /\ best_model' = IF train_best.model # NoModel THEN train_best ELSE NoBest
    /\ train_pc' = "run_trainer"
    /\ UNCHANGED <<model_params, save_model, train_i, train_best, saved_model, train_exc,
                   trainRest>>

\* run_trainer after train_all_models: save_model_to_repo(best_model["model"])
\* if self.save_model; None["model"] raises TypeError
RunTrainerReturns ==
    /\ train_pc = "run_trainer"
    /\ IF save_model /\ best_model = NoBest
       THEN /\ train_exc' = "TypeError"
            /\ train_pc' = "raised"
            /\ UNCHANGED saved_model
       ELSE /\ saved_model' = IF save_model THEN best_model.model ELSE saved_model
            /\ train_pc' = "returned"
            /\ UNCHANGED train_exc
    /\ UNCHANGED <<model_params, save_model, train_i, train_best, best_model, trainRest>>

TrainNext == TrainNextModel \/ TrainAllModelsReturns \/ RunTrainerReturns

----------------------------------------------------------------------------
(* enquiries-classification/topic_classifier_predict.py: get_model_name and  *)
(* predict, after PrepareText and ModelTrain persisted their objects in the  *)
(* same directory                                                            *)

\* model_name="features.pkl" of PrepareText, model_name="model.pkl" of
\* ModelTrain; they are the default patterns of predict
FeaturesPkl == <<"f", "e", "a", "t", "u", "r", "e", "s", ".", "p", "k", "l">>
ModelPkl == <<"m", "o", "d", "e", "l", ".", "p", "k", "l">>

\* files an earlier run may have left in the directory
EarlierFiles == {UpTo(FeaturesPkl, 8), UpTo(ModelPkl, 5), <<"o", "l", "d", "_">> \o ModelPkl}

FileNames == {FeaturesPkl, ModelPkl} \cup EarlierFiles

\* file contents: no file, an object left by an earlier run, the objects of
\* this training run
Absent == "absent"
Earlier == "earlier"
TrainedTfIdf == "tf_idf"
TrainedClassifier == "best_model"

\* the most enquiries of df
MaxEnquiries == 2

\* enquiry texts: a stop word, a word, a capitalised stop word and a word
EnquiryTexts == {<<"a">>, <<"n">>, <<"A", " ", "n">>}

\* None, NaN
NaN == <<"NaN">>

\* f[-n:]
LastChars(f, n) == IF Len(f) <= n THEN f ELSE From(f, Len(f) - n + 1)

\* f[:-4]
DropLast4(f) == UpTo(f, Len(f) - 4)

\* os.listdir(path) filtered by: f[-len(pattern):] == pattern
ModelFiles(dir, pattern) ==
    {f \in FileNames : dir[f] # Absent /\ LastChars(f, Len(pattern)) = pattern}

\* get_model_name: model_files[0][:-4], for each order os.listdir can give
GetModelNames(dir, pattern) == {DropLast4(f) : f \in ModelFiles(dir, pattern)}

\* remove_punctuation: [^\w\s] removed
RemovePunctuation(s) == SelectSeq(s, LAMBDA ch : IsWordChar(ch) \/ ch = " ")

\* word_tokenize of text without punctuation: the words between blanks
RECURSIVE WordTokens(_)
WordTokens(s) ==
    IF s = <<>> THEN <<>>
    ELSE IF s[1] = " " THEN WordTokens(From(s, 2))
    ELSE LET blanks == {i \in DOMAIN s : s[i] = " "}
             end == IF blanks = {} THEN Len(s) ELSE Min(blanks) - 1
         IN <<UpTo(s, end)>> \o WordTokens(From(s, end + 1))

\* str.join(sep=" ")
RECURSIVE JoinTokens(_)
JoinTokens(tokens) ==
    IF tokens = <<>> THEN <<>>
    ELSE IF Len(tokens) = 1 THEN tokens[1]
    ELSE tokens[1] \o <<" ">> \o JoinTokens(From(tokens, 2))

\* NlpProcessingBase.run_processor on one cell: _lemmatise_tokens returns
\* None for an empty token list, and the join of None is NaN; the lemma of a
\* one-letter token is the token
RunProcessor(cell) ==
    LET tokens == WordTokens(RemovePunctuation(
                      RemoveStopWordsAndSetCase(cell, EnglishStopWords)))
    IN IF tokens = <<>> THEN NaN ELSE JoinTokens(tokens)

\* model.predict(tf_idf.transform(text)) for one text: the labels depend on
\* the two objects and on the text
PredictLabels(vectoriser, model, txt) == <<vectoriser, model, txt>>

PredInit ==
    /\ \E earlier \in SUBSET EarlierFiles :
          model_dir = [f \in FileNames |-> IF f \in earlier THEN Earlier ELSE Absent]
    /\ \E texts \in SeqsUpTo(EnquiryTexts, MaxEnquiries) :
          /\ texts # <<>>
          /\ pred_df = [k \in DOMAIN texts |-> <<k, texts[k]>>]
    /\ id_col \in {"id", "ticket_id"}
    /\ f_name = <<>>
    /\ tf_idf = Absent
    /\ clf_name = <<>>
    /\ clf = Absent
    /\ pred_results = <<>>
    /\ pred_exc = "none"
    /\ pred_pc = "PrepareText"

PredIdle ==
    /\ model_dir = [f \in FileNames |-> Absent]
    /\ pred_df = <<>>
    /\ id_col = "id"
    /\ f_name = <<>>
    /\ tf_idf = Absent
    /\ clf_name = <<>>
    /\ clf = Absent
    /\ pred_results = <<>>
    /\ pred_exc = "none"
    /\ pred_pc = "idle"

\* PrepareText.split_data_and_get_features:
\* ut.persist_model(tf_idf, self.model_path)
PersistFeatures ==
    /\ pred_pc = "PrepareText"
    /\ model_dir' = [model_dir EXCEPT ![FeaturesPkl] = TrainedTfIdf]
    /\ pred_pc' = "ModelTrain"
    /\ UNCHANGED <<pred_df, id_col, f_name, tf_idf, clf_name, clf, pred_results,
                   pred_exc, predRest>>

\* ModelTrain.save_model_to_repo: ut.persist_model(model, self.model_path)
PersistModel ==
    /\ pred_pc = "ModelTrain"
    /\ model_dir' = [model_dir EXCEPT ![ModelPkl] = TrainedClassifier]
    /\ pred_pc' = "predict"
    /\ UNCHANGED <<pred_df, id_col, f_name, tf_idf, clf_name, clf, pred_results,
                   pred_exc, predRest>>

\* predict: f_name = get_model_name(features_pattern, path=features_path);
\* tf_idf = ut.load_model(os.path.join(features_path, f_name))
LoadFeatures ==
    /\ pred_pc = "predict"
    /\ \E name \in GetModelNames(model_dir, FeaturesPkl) :
          /\ f_name' = name
          /\ IF name \in FileNames /\ model_dir[name] # Absent
             THEN /\ tf_idf' = model_dir[name]
                  /\ pred_pc' = "features_loaded"
                  /\ UNCHANGED pred_exc
             ELSE /\ pred_exc' = "FileNotFoundError"
                  /\ pred_pc' = "raised"
                  /\ UNCHANGED tf_idf
    /\ UNCHANGED <<model_dir, pred_df, id_col, clf_name, clf, pred_results, predRest>>

\* predict: model_name = get_model_name(model_pattern, path=model_path);
\* model = ut.load_model(os.path.join(model_path, model_name))
LoadModel ==
    /\ pred_pc = "features_loaded"
    /\ \E name \in GetModelNames(model_dir, ModelPkl) :
          /\ clf_name' = name
          /\ IF name \in FileNames /\ model_dir[name] # Absent
             THEN /\ clf' = model_dir[name]
                  /\ pred_pc' = "model_loaded"
                  /\ UNCHANGED pred_exc
             ELSE /\ pred_exc' = "FileNotFoundError"
                  /\ pred_pc' = "raised"
                  /\ UNCHANGED clf
    /\ UNCHANGED <<model_dir, pred_df, id_col, f_name, tf_idf, pred_results, predRest>>

\* the rows of df whose processed text is not null: <<id, processed text>>
NoNullDf(df) ==
    SelectSeq([k \in DOMAIN df |-> <<df[k][1], RunProcessor(df[k][2])>>],
              LAMBDA row : row[2] # NaN)

\* results_df.merge(df[id_col], how="right", on="id"): a row for each row of
\* df, with the labels of the result row of the same id, NaN if there is none
MergeRight(results, df) ==
    [k \in DOMAIN df |->
        <<df[k][1],
          IF \E j \in DOMAIN results : results[j][1] = df[k][1]
          THEN results[CHOOSE j \in DOMAIN results : results[j][1] = df[k][1]][2]
          ELSE NaN>>]

\* predict from model.predict(X) on: predict raises ValueError for an array
\* of 0 samples, and the merge on "id" raises KeyError for another column name
PredictAndMerge ==
    /\ pred_pc = "model_loaded"
    /\ LET no_null_df == NoNullDf(pred_df)
           results_df == [k \in DOMAIN no_null_df |->
                            <<no_null_df[k][1],
                              PredictLabels(tf_idf, clf, no_null_df[k][2])>>]
       IN IF no_null_df = <<>>
          THEN /\ pred_exc' = "ValueError"
               /\ pred_pc' = "raised"
               /\ UNCHANGED pred_results
          ELSE IF id_col # "id"
          THEN /\ pred_exc' = "KeyError"
               /\ pred_pc' = "raised"
               /\ UNCHANGED pred_results
          ELSE /\ pred_results' = MergeRight(results_df, pred_df)
               /\ pred_pc' = "returned"
               /\ UNCHANGED pred_exc
    /\ UNCHANGED <<model_dir, pred_df, id_col, f_name, tf_idf, clf_name, clf, predRest>>

PredNext ==
    \/ PersistFeatures
    \/ PersistModel
    \/ LoadFeatures
    \/ LoadModel
    \/ PredictAndMerge

----------------------------------------------------------------------------
(* google-analytics/poll_website.py: click_element, page_interactions,       *)
(* poll_site                                                                 *)

MAX_CLICKS == 1
WAIT_TIME == 2

\* the most requests and the longest wait_time of a call of poll_site
MaxRequests == 3
MaxWaitTime == 3

\* get_urls(base_url) by suffix, and the referral URL poll_heroku appends
AzureUrls == {"", "graphs", "maps", "carousel", "about"}
HerokuUrls == AzureUrls \cup {"?utm_source"}

\* a randint that may also give no click at all
ZeroToMaxClicks == 0..MAX_CLICKS

\* random.randint(1, MAX_CLICKS)
NumClicksChoices == 1..MAX_CLICKS

\* the branch of page_interactions that calls click_element
HasElement(suffix) == suffix \in {"", "?utm_source", "graphs", "maps", "carousel"}

PollInit ==
    /\ urls \in {AzureUrls, HerokuUrls}
    /\ num_requests \in 0..MaxRequests
    /\ wait_time \in 1..MaxWaitTime
    /\ poll_i = 0
    /\ url = "none"
    /\ num_clicks = 0
    /\ clicks_done = 0
    /\ clicked = 0
    /\ pauses = <<>>
    /\ open_browsers = 0
    /\ url_log = <<>>
    /\ click_log = <<>>
    /\ pause_log = <<>>
    /\ poll_pc = "loop"

PollIdle ==
    /\ urls = {}
    /\ num_requests = 0
    /\ wait_time = WAIT_TIME
    /\ poll_i = 0
    /\ url = "none"
    /\ num_clicks = 0
    /\ clicks_done = 0
    /\ clicked = 0
    /\ pauses = <<>>
    /\ open_browsers = 0
    /\ url_log = <<>>
    /\ click_log = <<>>
    /\ pause_log = <<>>
    /\ poll_pc = "idle"

PollArgs == <<urls, num_requests, wait_time>>
PollLogs == <<url_log, click_log, pause_log>>

\* driver = webdriver.Chrome(...); url = random.choice(urls)
OpenBrowser ==
    /\ poll_pc = "loop"
    /\ poll_i < num_requests
    /\ open_browsers' = open_browsers + 1
    /\ url' \in urls
    /\ poll_pc' = "page_interactions"
    /\ UNCHANGED <<PollArgs, PollLogs, poll_i, num_clicks, clicks_done, clicked,
                   pauses, pollRest>>

\* page_interactions: driver.get(url); num_clicks = random.randint(1, MAX_CLICKS)
GetPage ==
    /\ poll_pc = "page_interactions"
    /\ num_clicks' \in NumClicksChoices
    /\ clicks_done' = 0
    /\ clicked' = 0
    /\ pauses' = <<>>
    /\ poll_pc' = "clicking"
    /\ UNCHANGED <<PollArgs, PollLogs, poll_i, url, open_browsers, pollRest>>

\* driver.get(url) raises (the page cannot be loaded): the exception leaves
\* poll_site
GetPageRaises ==
    /\ poll_pc = "page_interactions"
    /\ poll_pc' = "raised"
    /\ UNCHANGED <<PollArgs, PollLogs, poll_i, url, num_clicks, clicks_done, clicked,
                   pauses, open_browsers, pollRest>>

\* one iteration of the click loop: click_element on the pages that have an
\* element (the element is located and clicked, or not located within
\* MAX_WAIT and only a message printed), then time.sleep(WAIT_TIME)
ClickLoop ==
    /\ poll_pc = "clicking"
    /\ clicks_done < num_clicks
    /\ \E located \in BOOLEAN :
          clicked' = IF HasElement(url) /\ located THEN clicked + 1 ELSE clicked
    /\ pauses' = Append(pauses, WAIT_TIME)
    /\ clicks_done' = clicks_done + 1
    /\ UNCHANGED <<PollArgs, PollLogs, poll_i, url, num_clicks, open_browsers,
                   poll_pc, pollRest>>

\* elem.click() raises (it is outside the try of click_element)
ClickRaises ==
    /\ poll_pc = "clicking"
    /\ clicks_done < num_clicks
    /\ HasElement(url)
    /\ poll_pc' = "raised"
    /\ UNCHANGED <<PollArgs, PollLogs, poll_i, url, num_clicks, clicks_done, clicked,
                   pauses, open_browsers, pollRest>>

\* time.sleep(wait_time); driver.quit(); time.sleep(wait_time)
QuitBrowser ==
    /\ poll_pc = "clicking"
    /\ clicks_done = num_clicks
    /\ open_browsers' = open_browsers - 1
    /\ url_log' = Append(url_log, url)
    /\ click_log' = Append(click_log, clicked)
    /\ pause_log' = Append(pause_log, pauses \o <<wait_time, wait_time>>)
    /\ poll_i' = poll_i + 1
    /\ poll_pc' = "loop"
    /\ UNCHANGED <<PollArgs, url, num_clicks, clicks_done, clicked, pauses, pollRest>>

\* range(num_requests) is exhausted
PollSiteReturns ==
    /\ poll_pc = "loop"
    /\ poll_i = num_requests
    /\ poll_pc' = "done"
    /\ UNCHANGED <<PollArgs, PollLogs, poll_i, url, num_clicks, clicks_done, clicked,
                   pauses, open_browsers, pollRest>>

PollNext ==
    \/ OpenBrowser
    \/ GetPage
    \/ GetPageRaises
    \/ ClickLoop
    \/ ClickRaises
    \/ QuitBrowser
    \/ PollSiteReturns

----------------------------------------------------------------------------
(* topic_modelling/code/topic_modelling.py: main                             *)

\* main is entered with the --lda option; nothing is passed to run_lda yet
MainInit ==
    /\ lda_opt \in BOOLEAN
    /\ run_model = FALSE
    /\ single_model = TRUE
    /\ num_topics = NoTopics
    /\ topics = [start |-> 1, limit |-> 1, step |-> 1]
    /\ cv \in [TopicCounts -> Scores]
    /\ lda_i = 0
    /\ models_and_coherence = <<>>
    /\ lda_calls = <<>>
    /\ models_cvs_exists \in BOOLEAN
    /\ models_cvs_file = <<>>
    /\ m_c = <<>>
    /\ lda_pc = "main"

CliIdle == lda_opt = FALSE

\* main(lda): run_lda(run_model=True, docs=txt, single_model=False,
\* topics=topic_range, save_plot=True); the range 2..20 of topic_range is
\* cut to the model's largest topic count
Main ==
    /\ lda_pc = "main"
    /\ run_model' = TRUE
    /\ single_model' = FALSE
    /\ topics' = [start |-> 2, limit |-> MaxTopics + 1, step |-> 1]
    /\ lda_pc' = "start"
    /\ UNCHANGED <<num_topics, cv, lda_i, models_and_coherence, lda_calls,
                   models_cvs_exists, models_cvs_file, m_c, ldaRest>>

\* run_lda is always entered with run_model=True, so load_artifacts is never
\* reached from main
MainNext ==
    \/ Main
    \/ EnterLoop
    \/ TrainAndScore
    \/ LoopDone
    \/ SaveArtifacts

----------------------------------------------------------------------------
(* dash/app.py: update_date_slider; streamlit/dashboard/app.py: create_page  *)

MaxDay == 2
MaxCheckins == 2
DashUsers == {1, 2}
\* a timestamp is a count of half days; the day it falls on and a day's start
DayOf(t) == t \div 2
DayStart(d) == d * 2
CheckinTimes == 0..(DayStart(MaxDay) + 1)
CheckinRows == [user : DashUsers, time : CheckinTimes]
EdgeRows == {<<1, 2>>, <<2, 1>>}
NoDates == <<>>

\* checkins_df[c.USER_COL].resample("D").count(): one entry per calendar day
\* from the first to the last row's day, days without rows counting 0
Resample(df) ==
    IF df = <<>> THEN <<>>
    ELSE LET days == {DayOf(df[i].time) : i \in DOMAIN df}
             first == CHOOSE d \in days : \A e \in days : d <= e
             last == CHOOSE d \in days : \A e \in days : e <= d
         IN [d \in first..last |->
                Cardinality({i \in DOMAIN df : DayOf(df[i].time) = d})]

\* checkins_df[(checkins_df.index >= d0) & (checkins_df.index <= d1)]
BetweenDates(df, range) ==
    LET Keep(row) == row.time >= range[1] /\ row.time <= range[2]
    IN SelectSeq(df, Keep)

\* filter_edges, and the same two lines of update_date_slider
filter_edges(df, edges) ==
    LET users == {df[i].user : i \in DOMAIN df}
    IN {e \in edges : e[1] \in users /\ e[2] \in users}

\* the slider runs from the first to the last index of the daily series; the
\* Dash slider yields any epoch in between, the Streamlit slider whole steps
\* of one day from its lower end
SliderValues(kind, df) ==
    LET daily == Resample(df)
        first == CHOOSE d \in DOMAIN daily : \A e \in DOMAIN daily : d <= e
        last == CHOOSE d \in DOMAIN daily : \A e \in DOMAIN daily : e <= d
        stops == IF kind = "dash" THEN DayStart(first)..DayStart(last)
                 ELSE {DayStart(d) : d \in first..last}
    IN {value \in stops \X stops : value[1] <= value[2]}

DashInit ==
    /\ app_kind \in {"dash", "streamlit"}
    /\ checkins_df \in UNION {[1..k -> CheckinRows] : k \in 1..MaxCheckins}
    /\ edges_df \in SUBSET EdgeRows
    /\ dates = NoDates
    /\ daily_fig = <<>>
    /\ map_fig = <<>>
    /\ network_fig = {}
    /\ dash_pc = "loaded"

DashIdle ==
    /\ app_kind = "dash"
    /\ checkins_df = <<>>
    /\ edges_df = {}
    /\ dates = NoDates
    /\ daily_fig = <<>>
    /\ map_fig = <<>>
    /\ network_fig = {}
    /\ dash_pc = "idle"

\* update_date_slider(None): the callback on the initial load
UpdateDateSliderNone ==
    /\ app_kind = "dash"
    /\ dash_pc = "loaded"
    /\ dates' = NoDates
    /\ daily_fig' = Resample(checkins_df)
    /\ map_fig' = checkins_df
    /\ network_fig' = edges_df
    /\ dash_pc' = "rendered"
    /\ UNCHANGED <<app_kind, checkins_df, edges_df, dashRest>>

\* update_date_slider(dates) after the slider was moved
UpdateDateSlider ==
    /\ app_kind = "dash"
    /\ dash_pc \in {"loaded", "rendered"}
    /\ \E value \in SliderValues("dash", checkins_df) :
          LET new_chk_df == BetweenDates(checkins_df, value)
          IN /\ dates' = value
             /\ daily_fig' = Resample(new_chk_df)
             /\ map_fig' = new_chk_df
             /\ network_fig' = filter_edges(new_chk_df, edges_df)
    /\ dash_pc' = "rendered"
    /\ UNCHANGED <<app_kind, checkins_df, edges_df, dashRest>>

\* create_page(checkins_df, daily, edges_df): the script reruns whenever the
\* slider moves; the bar chart is drawn from the daily argument
CreatePage ==
    /\ app_kind = "streamlit"
    /\ dash_pc \in {"loaded", "rendered"}
    /\ \E date_range \in SliderValues("streamlit", checkins_df) :
          LET filtered == BetweenDates(checkins_df, date_range)
          IN /\ dates' = date_range
             /\ daily_fig' = Resample(checkins_df)
             /\ map_fig' = filtered
             /\ network_fig' = filter_edges(filtered, edges_df)
    /\ dash_pc' = "rendered"
    /\ UNCHANGED <<app_kind, checkins_df, edges_df, dashRest>>

DashNext ==
    \/ UpdateDateSliderNone
    \/ UpdateDateSlider
    \/ CreatePage

----------------------------------------------------------------------------
(* tariff_analysis/code/word_doc_processor.py: clean_and_standardise_data;   *)
(* utils.py: convert_blank_rows_to_nan, remove_nan_rows, fill_unused_cells   *)

MaxCleanRows == 2
MaxLabel == 2
EMPTY_CELL == "empty_cell"
NA == "<NA>"
\* a cell of a table read from the document: empty, one space, or text
CellTexts == {"", " ", "a"}
\* str.strip() of a cell
Strip(cell) == IF cell = " " THEN "" ELSE cell

\* the index labels of a frame are increasing; a frame that went through a
\* row filter (convert_tables_to_dataframe) has gaps in them
CleanFrames ==
    {df \in UNION {[1..k -> [label : 0..MaxLabel, code : CellTexts,
                             desc : CellTexts]] : k \in 0..MaxCleanRows} :
        \A i \in DOMAIN df : \A j \in DOMAIN df :
            i < j => df[i].label < df[j].label}

\* idxs = df.index[df[col].str.strip() == ""]: index LABELS
BlankCodeLabels(df) == {df[i].label : i \in {j \in DOMAIN df : Strip(df[j].code) = ""}}

\* .replace("", np.nan, regex=True): an empty pattern is not used as a regular
\* expression, so only cells that are exactly "" become NaN
ReplaceEmpty(cell) == IF cell = "" THEN NA ELSE cell

\* df.iloc[idxs] = df.iloc[idxs].replace(...): iloc takes the labels as
\* 0-based POSITIONS
ConvertBlankRowsToNan(df, has_col) ==
    IF ~has_col THEN df
    ELSE [i \in DOMAIN df |->
            IF (i - 1) \in BlankCodeLabels(df)
            THEN [label |-> df[i].label, code |-> ReplaceEmpty(df[i].code),
                  desc |-> ReplaceEmpty(df[i].desc)]
            ELSE df[i]]

\* iloc raises IndexError for a position outside the frame
IlocOutOfBounds(df, has_col) ==
    has_col /\ \E l \in BlankCodeLabels(df) : l >= Len(df)

\* df.dropna(axis=0, how="all")
RemoveNanRows(df) ==
    LET NotAllNan(row) == ~(row.code = NA /\ row.desc = NA)
    IN SelectSeq(df, NotAllNan)

\* df.fillna("empty_cell").replace(["", " "], "empty_cell", regex=False)
FillCell(cell) == IF cell \in {NA, "", " "} THEN EMPTY_CELL ELSE cell
FillUnusedCells(df) ==
    [i \in DOMAIN df |-> [label |-> df[i].label, code |-> FillCell(df[i].code),
                          desc |-> FillCell(df[i].desc)]]

CleanInit ==
    /\ clean_df \in CleanFrames
    /\ has_comm_code_col \in BOOLEAN
    /\ clean_result = <<>>
    /\ clean_exc = "None"
    /\ clean_pc = "start"

CleanIdle ==
    /\ clean_df = <<>>
    /\ has_comm_code_col = FALSE
    /\ clean_result = <<>>
    /\ clean_exc = "None"
    /\ clean_pc = "idle"

\* clean_and_standardise_data(df) returns; the standardised code column it
\* adds is left out, being a function of the code column alone
CleanAndStandardiseData ==
    /\ clean_pc = "start"
    /\ ~IlocOutOfBounds(clean_df, has_comm_code_col)
    /\ clean_result' = FillUnusedCells(RemoveNanRows(
                           ConvertBlankRowsToNan(clean_df, has_comm_code_col)))
    /\ clean_pc' = "returned"
    /\ UNCHANGED <<clean_df, has_comm_code_col, clean_exc, cleanRest>>

CleanAndStandardiseDataRaises ==
    /\ clean_pc = "start"
    /\ IlocOutOfBounds(clean_df, has_comm_code_col)
    /\ clean_exc' = "IndexError"
    /\ clean_pc' = "raised"
    /\ UNCHANGED <<clean_df, has_comm_code_col, clean_result, cleanRest>>

CleanNext == CleanAndStandardiseData \/ CleanAndStandardiseDataRaises

----------------------------------------------------------------------------
(* tariff_analysis/code/word_doc_processor.py: AuRatesDocIngest.run_processor *)
(* and AuUsesDocIngest.run_processor                                          *)

Processors == {"AuRatesDocIngest", "AuUsesDocIngest"}

\* datetime.now() of this run, later than the timestamp of any earlier file
Now == "20211108-101500"
\* ut.add_timestamp(self.output_file)
OutputCsv(p) ==
    <<Now, IF p = "AuRatesDocIngest" THEN "au_rates.csv" ELSE "au_uses.csv">>
\* the file write_file_info writes
InputFilesTxt == <<Now, "input_files.txt">>

\* run_processor is entered with the output directory as earlier runs left it
ProcInit ==
    /\ processor \in Processors
    /\ dir_exists = TRUE
    /\ dir_files \in SUBSET Files
    /\ dir_subdirs \in SUBSET SubDirs
    /\ unreadable \in SUBSET dir_files
    /\ archive_exists \in BOOLEAN
    /\ archive_names = {}
    /\ zip_members = <<>>
    /\ to_zip = TRUE
    /\ file_list = NoValue
    /\ orig_files = dir_files
    /\ arch_pc = "run_processor"

ProcIdle == processor = "AuRatesDocIngest"

\* AuRatesDocIngest.run_processor: the frame is built, then
\* ut.auto_archive_files(dir_name, os.path.join(dir_name, c.ARCHIVE_DIR))
RatesRunProcessor ==
    /\ arch_pc = "run_processor"
    /\ processor = "AuRatesDocIngest"
    /\ arch_pc' = "start"
    /\ UNCHANGED <<dir_exists, dir_files, dir_subdirs, unreadable,
                   archive_exists, archive_names, zip_members, to_zip,
                   file_list, orig_files, archRest>>

\* AuUsesDocIngest.run_processor: the frame is built and written; there is no
\* call of auto_archive_files
UsesRunProcessor ==
    /\ arch_pc = "run_processor"
    /\ processor = "AuUsesDocIngest"
    /\ arch_pc' = "returned"
    /\ UNCHANGED <<dir_exists, dir_files, dir_subdirs, unreadable,
                   archive_exists, archive_names, zip_members, to_zip,
                   file_list, orig_files, archRest>>

\* df.to_csv(ut.add_timestamp(self.output_file), index=False)
ToCsv ==
    /\ arch_pc = "returned"
    /\ dir_files' = dir_files \cup {OutputCsv(processor)}
    /\ arch_pc' = "csv"
    /\ UNCHANGED <<dir_exists, dir_subdirs, unreadable, archive_exists,
                   archive_names, zip_members, to_zip, file_list, orig_files,
                   archRest>>

\* ut.write_file_info(dir_name, os.path.basename(self.filepath)); return df
WriteFileInfo ==
    /\ arch_pc = "csv"
    /\ dir_files' = dir_files \cup {InputFilesTxt}
    /\ arch_pc' = "done"
    /\ UNCHANGED <<dir_exists, dir_subdirs, unreadable, archive_exists,
                   archive_names, zip_members, to_zip, file_list, orig_files,
                   archRest>>

ProcNext ==
    \/ RatesRunProcessor
    \/ UsesRunProcessor
    \/ GetAllFilesInDir
    \/ AddFilesToZip
    \/ DeleteFilesFromDir
    \/ ToCsv
    \/ WriteFileInfo

----------------------------------------------------------------------------
(* Claims about add_standardised_comm_code *)

IsDigitChar(ch) == ch \in Digits

\* C1: whatever the commodity-code cell holds, the standardised cell is
\* exactly 10 characters long and consists only of digits: the digits of the
\* input in order, followed by "0" padding.
C1_FixedWidthCode ==
    (code_pc = "returned" /\ comm_code_in_df) =>
        /\ Len(standardised) = CodeWidth
        /\ \A i \in 1..Len(standardised) : standardised[i] \in Digits
        /\ \E k \in 0..CodeWidth :
              standardised = SelectSeq(comm_code, IsDigitChar) \o [j \in 1..k |-> "0"]

----------------------------------------------------------------------------
(* Claims about auto_archive_files *)

\* C9: with to_zip=True, when auto_archive_files returns, archive_dir exists
\* and holds a zip archive that contains every file that was directly in
\* dir_name at the call, and none of those files remains in dir_name.
C9_ZipHoldsEveryFile ==
    (arch_pc = "returned" /\ to_zip) =>
        /\ archive_exists
        /\ \E z \in archive_names :
              z \in DOMAIN zip_members /\ orig_files \subseteq zip_members[z]
        /\ dir_files \cap orig_files = {}

\* C10: with to_zip=False, after the call every file that was in dir_name is
\* in archive_dir and no longer in dir_name.
C10_FilesMovedToArchive ==
    (arch_pc = "returned" /\ ~to_zip) =>
        /\ orig_files \subseteq archive_names
        /\ dir_files \cap orig_files = {}

----------------------------------------------------------------------------
(* Claims about the LDA model-selection loop *)

\* the candidate topic counts: start, start+step, ... strictly below limit
\* (num_topics alone with single_model)
Candidates ==
    IF single_model THEN {num_topics}
    ELSE {k \in TopicCounts : /\ k >= topics.start
                              /\ k < topics.limit
                              /\ (k - topics.start) % topics.step = 0}

C4_OneEntryPerTopicCount ==
    (lda_pc \in {"trained", "returned"} /\ run_model) =>
        /\ Len(models_and_coherence) = Cardinality(Candidates)
        /\ \A j \in DOMAIN models_and_coherence :
              /\ models_and_coherence[j].topics \in Candidates
              /\ models_and_coherence[j].model.num_topics = models_and_coherence[j].topics
              /\ models_and_coherence[j].coherence = cv[models_and_coherence[j].model.num_topics]
              /\ lda_calls[j] = models_and_coherence[j].topics
        /\ \A j, k \in DOMAIN models_and_coherence :
              j < k => models_and_coherence[j].topics < models_and_coherence[k].topics
        /\ Len(lda_calls) = Len(models_and_coherence)

\* a loop over several topic counts with a step of 2 has returned
C4_Witness ==
    /\ lda_pc = "trained" /\ run_model /\ ~single_model
    /\ topics.step = 2
    /\ Len(models_and_coherence) >= 2

----------------------------------------------------------------------------
(* Claims about TextProcessor *)

\* C2 as stated: every document goes through lower-casing and jargon
\* replacement, tokenisation, stopword removal, spelling correction and
\* lemmatisation, in this order, and no step is skipped for any document.
C2_EveryStepApplied ==
    tp_pc = "returned" =>
        \A d \in DocIds :
            processed_text[d] =
                CorrectLemmatiseWords(RemoveStopwords(Tokenise(
                    NormaliseJargon(Lower(tp_df[d])))))

\* C2 amended: every document goes through lower-casing, jargon replacement,
\* tokenisation, stopword removal and lemmatisation, in this order; the
\* spelling correction is applied (before the lemmatisation of a word) only
\* by a TextProcessor built with check_sp=True, and get_processed_text builds
\* it with check_sp=False, so it skips the correction for every document.
C2_StepsInOrderSpellingOptional ==
    /\ tp_entry = "get_processed_text" => ~check_sp
    /\ tp_pc = "returned" =>
        \A d \in DocIds :
            LET stopped == RemoveStopwords(Tokenise(NormaliseJargon(Lower(tp_df[d]))))
            IN /\ text[d] = Lower(tp_df[d])
               /\ jargon_replaced[d] = NormaliseJargon(text[d])
               /\ token_list[d] = Tokenise(jargon_replaced[d])
               /\ no_stop_list[d] = stopped
               /\ processed_text[d] = IF check_sp THEN CorrectLemmatiseWords(stopped)
                                      ELSE LemmatiseWords(stopped)

\* get_processed_text has returned a document whose misspelt word "caat" is
\* still misspelt
C2_Witness ==
    /\ tp_pc = "returned"
    /\ tp_entry = "get_processed_text"
    /\ \E d \in DocIds : "caat" \in Range(tp_df[d]) /\ "caat" \in Range(processed_text[d])

\* the positions of the tokens that are not in the list stop
KeptIdx(words, stop) == {i \in DOMAIN words : words[i] \notin Range(stop)}

\* out is the sub-sequence of the tokens of words that are not in stop
IsFiltered(out, words, stop) ==
    /\ out # NoValue
    /\ Len(out) = Cardinality(KeptIdx(words, stop))
    /\ \A j \in DOMAIN out :
          \E i \in KeptIdx(words, stop) :
             /\ Cardinality({k \in KeptIdx(words, stop) : k <= i}) = j
             /\ out[j] = words[i]

\* C5 as stated: for every non-empty token list, the result of
\* remove_stopwords is the sub-sequence of the tokens that are not in the
\* configured list, which is the NLTK English stopwords plus EXTRA_STOP_WORDS
\* or else the list passed to the constructor.
C5_StripsPassedList ==
    (tp_pc = "returned" /\ tp_entry = "remove_stopwords" /\ token_list[1] # <<>>) =>
        IsFiltered(no_stop_list[1], token_list[1],
                   IF stopwords_arg = NoValue THEN NltkStopwords \o ExtraStopWords
                   ELSE stopwords_arg)

\* C5 amended: for every non-empty token list, the result of remove_stopwords
\* is the sub-sequence of the tokens that are not in the configured list,
\* order and multiplicity kept; the configured list is the non-empty list
\* passed to the constructor, and the NLTK English stopwords plus
\* EXTRA_STOP_WORDS when none or an empty list is passed.
C5_StripsExactlyStopwords ==
    (tp_pc = "returned" /\ tp_entry = "remove_stopwords" /\ token_list[1] # <<>>) =>
        IsFiltered(no_stop_list[1], token_list[1],
                   IF stopwords_arg \in {NoValue, <<>>}
                   THEN NltkStopwords \o ExtraStopWords
                   ELSE stopwords_arg)

\* a list passed to the constructor removed one token of several and kept
\* a repeated token twice
C5_Witness ==
    /\ tp_pc = "returned" /\ tp_entry = "remove_stopwords"
    /\ stopwords_arg = <<"cats">>
    /\ "cats" \in Range(token_list[1])
    /\ no_stop_list[1] = <<"the", "the">>

----------------------------------------------------------------------------
(* Claims about NlpProcessingBase *)

\* whether the word w stands in s as a whole word: no word character
\* before it and none after it
HasWholeWord(s, w) ==
    \E i \in 1..Len(s) :
        /\ OccursAt(s, w, i)
        /\ (i = 1 \/ ~IsWordChar(s[i - 1]))
        /\ (i + Len(w) > Len(s) \/ ~IsWordChar(s[i + Len(w)]))

\* C6: for every input cell, the output of remove_stop_words_and_set_case is
\* all lower case and contains no word of the stop-word list as a whole
\* word, whatever the capitalisation of that word in the input.
C6_NoStopWordsLowerCase ==
    nlp_pc = "returned" =>
        /\ \A i \in DOMAIN nlp_result : nlp_result[i] # "A"
        /\ \A w \in Range(stop_words) : ~HasWholeWord(nlp_result, w)

----------------------------------------------------------------------------
(* Claims about extract_commodity_description *)

\* the description extracted for the df row at position k
DescriptionOf(k) == goods_description[k][2]

\* the returned Series has the rows of df, each index once and in order
SameIndexAsDf ==
    /\ Len(goods_description) = Len(desc_df)
    /\ \A k \in DOMAIN desc_df : goods_description[k][1] = desc_df[k][1]

\* C7: for every df, also one in which no description holds a bullet, a
\* hyphenated line or a newline, extract_commodity_description returns a
\* Series with one entry for each row of df.
C7_SeriesSameLengthAsDf ==
    desc_pc \in {"returned", "raised"} =>
        desc_pc = "returned" /\ SameIndexAsDf

\* the text after the last newline
LastLine(str) == From(str, Max(Occurrences(str, Newline)) + 1)

\* the text from the last occurrence among occ, with or without the newline
\* that starts it
FromLast(str, occ) == {From(str, Max(occ)), From(str, Max(occ) + 1)}

\* the description the positional rules name: the last hyphenated line, else
\* the last bullet, else the last line, else the text itself
PositionalDescriptions(str) ==
    LET hyphenated == Occurrences(str, HyphensNoSpc) \cup Occurrences(str, HyphensSpc)
        bullets == Occurrences(str, HyphenBullet) \cup Occurrences(str, DotBullet)
    IN IF hyphenated # {} THEN FromLast(str, hyphenated)
       ELSE IF bullets # {} THEN FromLast(str, bullets)
       ELSE IF Contains(str, Newline) THEN {LastLine(str)}
       ELSE {str}

BeforeFirst(str, pattern) ==
    ReplaceTrailingText(
        ReplaceTrailingText(UpTo(str, Min(Occurrences(str, pattern)) - 1), <<"\n", " ">>),
        Newline)

\* a bullet of the pattern heads a list under an item line that is not the
\* first line of the text
ListUnderItemLine(str, pattern) ==
    Contains(str, pattern) /\ Contains(BeforeFirst(str, pattern), Newline)

\* the item line and the whole list from its first bullet
ItemLineAndList(str, pattern) ==
    LastLine(BeforeFirst(str, pattern)) \o From(str, Min(Occurrences(str, pattern)))

\* the description the code extracts from one text
ExtractedDescription(str) ==
    IF str = <<"-">> THEN str
    ELSE IF Contains(str, HyphensNoSpc) THEN From(str, Max(Occurrences(str, HyphensNoSpc)))
    ELSE IF Contains(str, HyphensSpc) THEN From(str, Max(Occurrences(str, HyphensSpc)))
    ELSE IF ListUnderItemLine(str, HyphenBullet) THEN ItemLineAndList(str, HyphenBullet)
    ELSE IF ListUnderItemLine(str, DotBullet) THEN ItemLineAndList(str, DotBullet)
    ELSE IF Contains(str, Newline) THEN LastLine(str)
    ELSE str

----------------------------------------------------------------------------
(* Claims about the file readers *)

\* C11: when the file cannot be read, no exception leaves the reader:
\* get_raw_data_from_file and get_csv_data exit the process,
\* get_text_to_summarise returns the example text, and get_processed_text
\* returns a fallback value or exits.
C11_FailedReadHandledLocally ==
    (read_pc \in {"returned", "exited", "raised"} /\ read_path /\ read_fault # "ok") =>
        /\ read_pc # "raised"
        /\ read_fn \in {"get_raw_data_from_file", "get_csv_data"} => read_pc = "exited"
        /\ read_fn = "get_text_to_summarise" => read_result = "EXAMPLE_TEXT"

----------------------------------------------------------------------------
(* Claims about TextSummariser.set_summary_bounds *)

\* set_summary_bounds raised the exception <<type, message>>
SumRaised(type, message) == sum_pc = "raised" /\ sum_exc = <<type, message>>

\* set_summary_bounds returned value
SumReturned(value) == sum_pc = "returned" /\ self_bounds = value

----------------------------------------------------------------------------
(* Claims about ModelTrain *)

\* the models of model_params whose grid search did not raise
Trained == {k \in DOMAIN model_params : model_params[k] # FitRaises}

\* the first of the trained models with the highest test score
OverallBest ==
    CHOOSE k \in Trained :
        /\ \A j \in Trained : model_params[j] <= model_params[k]
        /\ \A j \in Trained : model_params[j] = model_params[k] => k <= j

AboveInitialBest == {k \in Trained : model_params[k] > FailScore}

----------------------------------------------------------------------------
(* Claims about predict *)

\* C14: after PrepareText(model_name='features.pkl') and
\* ModelTrain(model_name='model.pkl') saved their objects in D, predict with
\* its default patterns resolves to exactly those two files and loads the
\* objects training persisted.
C14_LoadsWhatTrainingPersisted ==
    /\ pred_pc \in {"features_loaded", "model_loaded", "returned", "raised"} =>
          /\ f_name = FeaturesPkl
          /\ tf_idf = TrainedTfIdf
    /\ pred_pc \in {"model_loaded", "returned"} =>
          /\ clf_name = ModelPkl
          /\ clf = TrainedClassifier
    /\ pred_pc = "raised" => pred_exc # "FileNotFoundError"

\* C15: predict returns one row for every enquiry id of df, for any id column
\* name: NaN labels for the enquiries whose processed text is empty, and for
\* every other id the model's prediction for its own text.
C15_OneRowPerEnquiry ==
    pred_pc \in {"returned", "raised"} =>
        /\ pred_pc = "returned"
        /\ Len(pred_results) = Len(pred_df)
        /\ \A k \in DOMAIN pred_df :
              /\ pred_results[k][1] = pred_df[k][1]
              /\ pred_results[k][2] =
                    IF RunProcessor(pred_df[k][2]) = NaN THEN NaN
                    ELSE PredictLabels(tf_idf, clf, RunProcessor(pred_df[k][2]))

----------------------------------------------------------------------------
(* Claims about poll_site *)

\* C16: poll_site loads a randomly chosen page on each iteration with
\* randomized delays: the pauses are not the same fixed values on every
\* iteration.
C16_RandomizedDelays ==
    (poll_pc = "done" /\ num_requests >= 2) =>
        \E j, k \in DOMAIN pause_log : pause_log[j] # pause_log[k]

\* C16 (as the code has it): each iteration loads a page chosen at random
\* from urls, makes at most MAX_CLICKS clicks (none on the about page) and
\* pauses for fixed times: WAIT_TIME after the click step, then wait_time
\* before and wait_time after the browser is quit.
C16_FixedDelays ==
    /\ Len(url_log) = poll_i /\ Len(click_log) = poll_i /\ Len(pause_log) = poll_i
    /\ \A k \in DOMAIN pause_log :
          /\ pause_log[k] = <<WAIT_TIME, wait_time, wait_time>>
          /\ url_log[k] \in urls
          /\ click_log[k] <= MAX_CLICKS
          /\ url_log[k] = "about" => click_log[k] = 0

\* three requests made to different pages, with and without a click
C16_Witness ==
    /\ poll_pc = "done"
    /\ num_requests = 3
    /\ url_log[1] # url_log[2]
    /\ click_log[1] = 1
    /\ click_log[2] = 0
    /\ wait_time # WAIT_TIME

----------------------------------------------------------------------------
(* Claims about topic_modelling.main *)

\* C17: the --lda option decides whether a new LDA model is run: with
\* --lda False no model is trained or saved and the persisted models are
\* loaded; only with --lda True are new models trained and saved.
C17_LdaOptionDecides ==
    ~lda_opt =>
        /\ lda_calls = <<>>
        /\ lda_pc \notin {"loop", "trained"}
        /\ lda_pc = "returned" => m_c = models_cvs_file /\ models_and_coherence = <<>>

----------------------------------------------------------------------------
(* Claims about the two dashboards *)

\* positions of the check-ins whose time lies in the selected range
SelectedCheckins ==
    {i \in DOMAIN checkins_df :
        dates[1] <= checkins_df[i].time /\ checkins_df[i].time <= dates[2]}

SelectedUsers == {checkins_df[i].user : i \in SelectedCheckins}

\* C18: in both dashboards, once the slider selects [d0, d1], the daily
\* chart, the map and the network graph show only the check-ins with
\* d0 <= time <= d1 and only the edges between users with such a check-in;
\* with no slider value the full dataset is shown.
C18_ViewsFromSameFilteredData ==
    dash_pc = "rendered" =>
        IF dates = NoDates
        THEN /\ map_fig = checkins_df
             /\ network_fig = edges_df
             /\ \A d \in DOMAIN daily_fig :
                   daily_fig[d] = Cardinality({i \in DOMAIN checkins_df :
                                       DayOf(checkins_df[i].time) = d})
        ELSE /\ Len(map_fig) = Cardinality(SelectedCheckins)
             /\ \A k \in DOMAIN map_fig :
                   \E i \in SelectedCheckins : map_fig[k] = checkins_df[i]
             /\ network_fig = {e \in edges_df : e[1] \in SelectedUsers
                                                /\ e[2] \in SelectedUsers}
             /\ \A d \in DOMAIN daily_fig :
                   daily_fig[d] = Cardinality({i \in SelectedCheckins :
                                       DayOf(checkins_df[i].time) = d})

\* the same statement for the Dash dashboard alone
DashViewsFromSameFilteredData ==
    app_kind = "dash" => C18_ViewsFromSameFilteredData

----------------------------------------------------------------------------
(* Claims about clean_and_standardise_data *)

BlankCell(cell) == Strip(cell) = ""
BlankRow(row) == BlankCell(row.code) /\ BlankCell(row.desc)
KeptLabels == {clean_result[i].label : i \in DOMAIN clean_result}
ResultRow(l) == clean_result[CHOOSE i \in DOMAIN clean_result : clean_result[i].label = l]

\* C19: clean_and_standardise_data removes completely blank rows and only
\* those: a row is dropped if and only if every one of its cells is blank;
\* a row whose commodity code is blank but whose other cells hold text is
\* kept with that text unchanged.
C19_DropsExactlyBlankRows ==
    /\ clean_pc # "raised"
    /\ clean_pc = "returned" =>
          \A i \in DOMAIN clean_df :
             /\ clean_df[i].label \notin KeptLabels <=> BlankRow(clean_df[i])
             /\ BlankCell(clean_df[i].code) /\ ~BlankCell(clean_df[i].desc) =>
                   /\ clean_df[i].label \in KeptLabels
                   /\ ResultRow(clean_df[i].label).desc = clean_df[i].desc

\* the frames on which the code does what it says: labels equal to the
\* positions, a commodity_code column, and no cell made of a space alone
PositionalFrame ==
    /\ has_comm_code_col
    /\ \A i \in DOMAIN clean_df :
          /\ clean_df[i].label = i - 1
          /\ clean_df[i].code # " "
          /\ clean_df[i].desc # " "

DropsExactlyBlankRowsOfPositionalFrame ==
    PositionalFrame => C19_DropsExactlyBlankRows

----------------------------------------------------------------------------
(* Claims about run_processor *)

\* the files held by the archives written so far
ArchivedFiles == UNION {zip_members[n] : n \in DOMAIN zip_members}

\* C20: both run_processor methods archive the previous contents of the
\* output directory before they write: when run_processor returns, the CSV
\* and the input-files record of this run are in the output directory, and
\* every file that was there before is in the archive and no longer in the
\* output directory.
C20_PreviousOutputArchived ==
    arch_pc = "done" =>
        /\ {OutputCsv(processor), InputFilesTxt} \subseteq dir_files
        /\ \A f \in orig_files : f \in ArchivedFiles /\ f \notin dir_files

\* what remains true of AuRatesDocIngest: the previous files are gone from
\* the output directory, and archived when all of them could be read
RatesPreviousOutputRemoved ==
    arch_pc = "done" /\ processor = "AuRatesDocIngest" =>
        /\ {OutputCsv(processor), InputFilesTxt} \subseteq dir_files
        /\ \A f \in orig_files : f \notin dir_files

----------------------------------------------------------------------------
(* Claims about failed models in ModelTrain *)

EveryModelFails ==
    /\ model_params # <<>>
    /\ \A k \in DOMAIN model_params : model_params[k] = FitRaises

\* a failed grid search yields {"model": None, "score": -1.0}, the loop goes
\* on over every item, and the best is never a failed model
FailedModelSkipped ==
    /\ \A k \in DOMAIN model_params :
          model_params[k] = FitRaises =>
              TrainSingleModel(k) = [model |-> NoModel, score |-> FailScore]
    /\ train_pc # "train_all_models" => train_i = Len(model_params)
    /\ train_best.model # NoModel => model_params[train_best.model] # FitRaises
    /\ best_model # NoBest => model_params[best_model.model] # FitRaises

\* C21: a model whose grid search raises is handled locally:
\* train_single_model returns {"model": None, "score": -1.0}, the remaining
\* models are still trained, a failed model is never selected as best, and
\* when every model fails run_trainer, with save_model True or False, logs
\* the failure and returns without raising.
C21_FailedModelsHandledLocally ==
    /\ FailedModelSkipped
    /\ EveryModelFails => train_pc # "raised"

\* when every model fails and save_model is False, run_trainer returns None
AllFailedUnsavedReturns ==
    EveryModelFails /\ ~save_model => train_pc # "raised"

----------------------------------------------------------------------------
(* Claims about the browsers of poll_site *)

\* poll_site has returned or an exception has left it
PollSiteEnded == poll_pc \in {"done", "raised"}

\* a browser is quit before the next one is opened
AtMostOneBrowser == open_browsers <= 1

\* an execution in which nothing raises does num_requests iterations, each
\* with one page, and leaves no browser open
ReturnedAfterAllRequests ==
    poll_pc = "done" =>
        /\ poll_i = num_requests
        /\ Len(url_log) = num_requests
        /\ \A k \in DOMAIN url_log : url_log[k] \in urls
        /\ open_browsers = 0

\* C22: poll_site performs exactly num_requests iterations and ends; each
\* iteration opens one browser, loads one URL of the list and quits the
\* browser before the next is opened, so at most one browser is open at any
\* time, and in every execution, also when loading the page or clicking
\* raises, every browser that was opened has been quit when poll_site ends.
C22_EveryBrowserQuit ==
    /\ AtMostOneBrowser
    /\ ReturnedAfterAllRequests
    /\ PollSiteEnded => open_browsers = 0

----------------------------------------------------------------------------
(* Specifications *)

InitCommCode == CodeInit /\ ArchIdle /\ LdaIdle /\ TpIdle /\ NlpIdle /\ DescIdle /\ ReadIdle /\ SumIdle /\ TrainIdle /\ PredIdle /\ PollIdle /\ CliIdle /\ DashIdle /\ CleanIdle /\ ProcIdle
SpecCommCode == InitCommCode /\ [][CodeNext]_vars

InitArchive == ArchInit /\ CodeIdle /\ LdaIdle /\ TpIdle /\ NlpIdle /\ DescIdle /\ ReadIdle /\ SumIdle /\ TrainIdle /\ PredIdle /\ PollIdle /\ CliIdle /\ DashIdle /\ CleanIdle /\ ProcIdle
SpecArchive == InitArchive /\ [][ArchNext]_vars

InitLda == LdaInit /\ CodeIdle /\ ArchIdle /\ TpIdle /\ NlpIdle /\ DescIdle /\ ReadIdle /\ SumIdle /\ TrainIdle /\ PredIdle /\ PollIdle /\ CliIdle /\ DashIdle /\ CleanIdle /\ ProcIdle
SpecLda == InitLda /\ [][LdaNext]_vars

InitTextProcessor == TpInit /\ CodeIdle /\ ArchIdle /\ LdaIdle /\ NlpIdle /\ DescIdle /\ ReadIdle /\ SumIdle /\ TrainIdle /\ PredIdle /\ PollIdle /\ CliIdle /\ DashIdle /\ CleanIdle /\ ProcIdle
SpecTextProcessor == InitTextProcessor /\ [][TpNext]_vars

InitStopwords == StopInit /\ CodeIdle /\ ArchIdle /\ LdaIdle /\ NlpIdle /\ DescIdle /\ ReadIdle /\ SumIdle /\ TrainIdle /\ PredIdle /\ PollIdle /\ CliIdle /\ DashIdle /\ CleanIdle /\ ProcIdle
SpecStopwords == InitStopwords /\ [][StopNext]_vars

InitNlp == NlpInit /\ CodeIdle /\ ArchIdle /\ LdaIdle /\ TpIdle /\ DescIdle /\ ReadIdle /\ SumIdle /\ TrainIdle /\ PredIdle /\ PollIdle /\ CliIdle /\ DashIdle /\ CleanIdle /\ ProcIdle
SpecNlp == InitNlp /\ [][NlpNext]_vars

InitDesc == DescInit /\ CodeIdle /\ ArchIdle /\ LdaIdle /\ TpIdle /\ NlpIdle /\ ReadIdle /\ SumIdle /\ TrainIdle /\ PredIdle /\ PollIdle /\ CliIdle /\ DashIdle /\ CleanIdle /\ ProcIdle
SpecDesc == InitDesc /\ [][DescNext]_vars


InitRead == ReadInit /\ CodeIdle /\ ArchIdle /\ LdaIdle /\ TpIdle /\ NlpIdle /\ DescIdle /\ SumIdle /\ TrainIdle /\ PredIdle /\ PollIdle /\ CliIdle /\ DashIdle /\ CleanIdle /\ ProcIdle
SpecRead == InitRead /\ [][ReadNext]_vars


InitSummariser == SumInit /\ CodeIdle /\ ArchIdle /\ LdaIdle /\ TpIdle /\ NlpIdle /\ DescIdle /\ ReadIdle /\ TrainIdle /\ PredIdle /\ PollIdle /\ CliIdle /\ DashIdle /\ CleanIdle /\ ProcIdle
SpecSummariser == InitSummariser /\ [][SumNext]_vars


InitTrain == TrainInit /\ CodeIdle /\ ArchIdle /\ LdaIdle /\ TpIdle /\ NlpIdle /\ DescIdle /\ ReadIdle /\ SumIdle /\ PredIdle /\ PollIdle /\ CliIdle /\ DashIdle /\ CleanIdle /\ ProcIdle
SpecTrain == InitTrain /\ [][TrainNext]_vars


InitPredict == PredInit /\ CodeIdle /\ ArchIdle /\ LdaIdle /\ TpIdle /\ NlpIdle /\ DescIdle /\ ReadIdle /\ SumIdle /\ TrainIdle /\ PollIdle /\ CliIdle /\ DashIdle /\ CleanIdle /\ ProcIdle
SpecPredict == InitPredict /\ [][PredNext]_vars


InitPoll == PollInit /\ CodeIdle /\ ArchIdle /\ LdaIdle /\ TpIdle /\ NlpIdle /\ DescIdle /\ ReadIdle /\ SumIdle /\ TrainIdle /\ PredIdle /\ CliIdle /\ DashIdle /\ CleanIdle /\ ProcIdle
SpecPoll == InitPoll /\ [][PollNext]_vars


InitMain == MainInit /\ CodeIdle /\ ArchIdle /\ TpIdle /\ NlpIdle /\ DescIdle /\ ReadIdle /\ SumIdle /\ TrainIdle /\ PredIdle /\ PollIdle /\ DashIdle /\ CleanIdle /\ ProcIdle
SpecMain == InitMain /\ [][MainNext]_vars


InitDash == DashInit /\ CodeIdle /\ ArchIdle /\ LdaIdle /\ TpIdle /\ NlpIdle /\ DescIdle /\ ReadIdle /\ SumIdle /\ TrainIdle /\ PredIdle /\ PollIdle /\ CliIdle /\ CleanIdle /\ ProcIdle
SpecDash == InitDash /\ [][DashNext]_vars


InitClean == CleanInit /\ CodeIdle /\ ArchIdle /\ LdaIdle /\ TpIdle /\ NlpIdle /\ DescIdle /\ ReadIdle /\ SumIdle /\ TrainIdle /\ PredIdle /\ PollIdle /\ CliIdle /\ DashIdle /\ ProcIdle
SpecClean == InitClean /\ [][CleanNext]_vars


InitProc == ProcInit /\ CodeIdle /\ LdaIdle /\ TpIdle /\ NlpIdle /\ DescIdle /\ ReadIdle /\ SumIdle /\ TrainIdle /\ PredIdle /\ PollIdle /\ CliIdle /\ DashIdle /\ CleanIdle
SpecProc == InitProc /\ [][ProcNext]_vars

====
